---- MODULE Spec2Model ----
(***************************************************************************)
(* Model of the OCI -> CloudZero AnyCost adaptor:                          *)
(*   - CloudZeroClient.upload_billing_data and its batch planner           *)
(*     (src/src/cloudzero.py),                                             *)
(*   - the line-item classifiers and the two record transforms             *)
(*     (src/src/oci_transform.py, src/src/csv_to_cbf.py),                  *)
(*   - parse_month_range (src/src/cloudzero.py),                           *)
(*   - the page and retry loops of fetch_oci_usage_data                    *)
(*     (src/src/oci_usage.py),                                             *)
(*   - main and process_multiple_months (src/src/oci_anycost_adaptor.py), *)
(*   - write_cbf_csv and the reading back of its file                      *)
(*     (src/src/csv_to_cbf.py),                                            *)
(*   - the batch loops of the second client (src/src/cloudzero_client.py). *)
(*                                                                         *)
(* Text is modelled as a sequence of one-character strings, so that        *)
(* parsing, formatting, lower-casing and substring search are computed     *)
(* and not assumed.  A CBF row is modelled by its position in the input    *)
(* and the byte length of its compact JSON encoding.                       *)
(***************************************************************************)
EXTENDS Integers, Sequences, FiniteSets, TLC

VARIABLES
    \* ---- upload_billing_data (src/src/cloudzero.py) ----
    cbf_rows,      \* argument: the list of CBF rows
    month,         \* argument: the billing month, text
    operation,     \* argument: "replace_drop" | "replace_hourly" | "sum"
    dry_run,       \* argument
    pc,            \* position in upload_billing_data
    batches,       \* local: the planned batches
    i,             \* local: 1-based index of the batch the loop is at
    results,       \* local: per-batch results, in the order sent
    posts,         \* every requests.post issued so far, in order
    send_outcomes, \* what became of each of them, in order
    ret,           \* the returned dictionary
    prepared,      \* the batch payloads a dry run prepared and listed, in order
    \* ---- transform_oci_to_cbf / transform_csv_to_cbf ----
    source,        \* "api" | "csv" | "idle"
    records,       \* the input records
    cbf_out,       \* the rows the transform returned
    xpc,           \* position in the transform
    output_file,   \* the characters write_cbf_csv put in the output file
    read_back,     \* what csv.DictReader makes of that file
    \* ---- parse_month_range ----
    month_input,   \* argument, text
    months,        \* local / returned list of month texts
    current,       \* local: the loop's date, [year, month]
    end_date,      \* local: the range's end, [year, month]
    mpc,           \* position in parse_month_range
    \* ---- fetch_oci_usage_data (src/src/oci_usage.py) ----
    fpc,           \* position in fetch_oci_usage_data
    page_num,      \* local: the page being requested, from 1
    attempt,       \* local: the retry loop's index, from 0
    api_calls,     \* every request_summarized_usages call so far, in order
    sleeps,        \* every time.sleep so far, in order
    all_items,     \* local: the pages gathered so far
    \* ---- main (src/src/oci_anycost_adaptor.py) ----
    args,          \* the parsed command line
    environ,       \* which CloudZero settings the environment holds
    mainpc,        \* position in main
    months_to_process, \* local "months": the month texts to process
    month_index,   \* position of process_multiple_months in that list
    all_cbf_rows,  \* the rows gathered, each named by the month it came from
    trace,         \* what the run has done so far, in order
    upload_result, \* what upload_cbf_to_cloudzero gave
    month_outcomes, \* what fetch_and_process_oci_data did for each month so far
    upload_call,   \* the arguments of the upload_cbf_to_cloudzero call
    exit_status    \* the process's exit status, -1 while it runs

uploadVars == <<cbf_rows, month, operation, dry_run, pc, batches, i, results, posts,
                send_outcomes, ret, prepared>>
xformVars == <<source, records, cbf_out, xpc, output_file, read_back>>
monthVars == <<month_input, months, current, end_date, mpc>>
fetchVars == <<fpc, page_num, attempt, api_calls, sleeps, all_items>>
mainVars == <<args, environ, mainpc, months_to_process, month_index, all_cbf_rows, trace,
              upload_result, month_outcomes, upload_call, exit_status>>
vars == <<uploadVars, xformVars, monthVars, fetchVars, mainVars>>

-----------------------------------------------------------------------------
(* Text helpers                                                            *)

DigitChars == <<"0", "1", "2", "3", "4", "5", "6", "7", "8", "9">>

IsDigit(c) == \E d \in 1..10 : DigitChars[d] = c

DigitVal(c) == (CHOOSE d \in 1..10 : DigitChars[d] = c) - 1

DigitChar(n) == DigitChars[n + 1]

\* The text of n, zero-padded to exactly two digits (strftime %m).
TwoDigits(n) == <<DigitChar((n \div 10) % 10), DigitChar(n % 10)>>

\* The text of n, zero-padded to exactly four digits (strftime %Y, years >= 1000).
FourDigits(n) ==
    <<DigitChar((n \div 1000) % 10), DigitChar((n \div 100) % 10),
      DigitChar((n \div 10) % 10), DigitChar(n % 10)>>

\* Text of a month: "YYYY-MM".
MonthText(y, m) == FourDigits(y) \o <<"-">> \o TwoDigits(m)

AllDigits(s) == \A k \in 1..Len(s) : IsDigit(s[k])

RECURSIVE NumVal(_)
NumVal(s) == IF s = <<>> THEN 0 ELSE 10 * NumVal(SubSeq(s, 1, Len(s) - 1)) + DigitVal(s[Len(s)])

-----------------------------------------------------------------------------
(* Bounds and inputs of the upload                                         *)

MaxRows == 3

\* Byte lengths of the compact JSON encoding of one row that the inputs draw
\* from: small rows, rows two of which just fit / just miss the planner's
\* ceiling, rows that hit the 5 MiB test exactly, and rows that are oversized
\* on their own.
RowSizes == {100, 2359258, 2359268, 2400000, 2842832, 4800000, 5300000}

Operations == {"replace_drop", "replace_hourly", "sum"}

\* Billing months handed to upload_billing_data: two that strptime("%Y-%m")
\* accepts (7 and 6 characters) and one that it rejects.
UploadMonths ==
    { <<"2", "0", "2", "4", "-", "0", "8">>,
      <<"2", "0", "2", "5", "-", "1">>,
      <<"2", "0", "2", "4", "-", "1", "3">> }

\* What requests.post / raise_for_status can do with one request.  A 2xx
\* response has a JSON body ("ok"), an empty body, or a body that is no JSON.
SendOutcomes ==
    {"ok", "ok_empty_body", "ok_not_json", "timeout", "http_error", "request_error"}

RowLists ==
    UNION { { [k \in 1..n |-> [id |-> k, size |-> f[k]]] : f \in [1..n -> RowSizes] }
            : n \in 0..MaxRows }

NoResult == [none |-> TRUE]

-----------------------------------------------------------------------------
(* Sizes                                                                   *)

RECURSIVE SumSizes(_)
SumSizes(rows) == IF rows = <<>> THEN 0 ELSE Head(rows).size + SumSizes(Tail(rows))

\* len(json.dumps(row, separators=(',', ':')).encode('utf-8'))
RowJsonSize(row) == row.size

\* _calculate_payload_size({"month": m, "operation": op, "data": rows}) with
\* m of mlen characters: {"month":"..","operation":"..","data":[r1,r2,...]}
PayloadSize(mlen, op, rows) ==
    37 + mlen + Len(op) + SumSizes(rows) + (IF Len(rows) > 1 THEN Len(rows) - 1 ELSE 0)

CalculatePayloadSize(m, op, rows) == PayloadSize(Len(m), op, rows)

\* A planner target above the limit: max_size_mb = 6
max_batch_bytes_above_limit == 6 * 1024 * 1024

\* int(max_size_mb * 1024 * 1024) for the default max_size_mb = 4.5
max_batch_bytes == (45 * 1024 * 1024) \div 10

\* Mutant: the decision to batch uses the planner's 4.5 MiB target.
max_size_bytes_planner_target == max_batch_bytes

\* max_size_bytes = 5 * 1024 * 1024  # 5MB limit
max_size_bytes == 5 * 1024 * 1024

RowPadding == 10

\* base_payload = {"month": "2025-01", "operation": "replace_drop", "data": []}
base_size == PayloadSize(7, "replace_drop", <<>>)

\* Mutant: the planner's estimate without the per-row padding.
row_size_unpadded(row) == RowJsonSize(row)

\* row_size = len(json.dumps(row, ...)) + 10
row_size(row) == RowJsonSize(row) + RowPadding

-----------------------------------------------------------------------------
(* _split_into_batches                                                     *)

\* One pass of the for loop over cbf_rows[k..]; acc = [batches, current_batch,
\* current_size].
RECURSIVE SplitLoop(_, _, _)
SplitLoop(rows, k, acc) ==
    IF k > Len(rows) THEN acc
    ELSE LET row == rows[k]
             rs == row_size(row)
         IN IF acc.current_size + rs + base_size > max_batch_bytes
               /\ acc.current_batch # <<>>
            THEN SplitLoop(rows, k + 1,
                           [batches |-> Append(acc.batches, acc.current_batch),
                            current_batch |-> <<row>>,
                            current_size |-> rs])
            ELSE SplitLoop(rows, k + 1,
                           [batches |-> acc.batches,
                            current_batch |-> Append(acc.current_batch, row),
                            current_size |-> acc.current_size + rs])

\* The planner without lines 66-68: the last batch is not added.
SplitIntoBatchesWithoutLast(rows) ==
    SplitLoop(rows, 1, [batches |-> <<>>, current_batch |-> <<>>, current_size |-> 0]).batches

SplitIntoBatches(rows) ==
    LET acc == SplitLoop(rows, 1, [batches |-> <<>>, current_batch |-> <<>>, current_size |-> 0])
    IN IF acc.current_batch # <<>> THEN Append(acc.batches, acc.current_batch)
       ELSE acc.batches

-----------------------------------------------------------------------------
(* datetime.strptime(month, "%Y-%m")                                       *)

\* %m is the regular expression 1[0-2]|0[1-9]|[1-9]; the whole text has to be
\* consumed and the year has to be at least 1.
StrptimeMonthPart(s) ==
    \/ Len(s) = 2 /\ s[1] = "1" /\ s[2] \in {"0", "1", "2"}
    \/ Len(s) = 2 /\ s[1] = "0" /\ IsDigit(s[2]) /\ s[2] # "0"
    \/ Len(s) = 1 /\ IsDigit(s[1]) /\ s[1] # "0"

StrptimeYmOk(s) ==
    /\ Len(s) >= 6
    /\ AllDigits(SubSeq(s, 1, 4))
    /\ NumVal(SubSeq(s, 1, 4)) >= 1
    /\ s[5] = "-"
    /\ StrptimeMonthPart(SubSeq(s, 6, Len(s)))

-----------------------------------------------------------------------------
(* _upload_single_batch                                                    *)

\* The request requests.post is called with.
Request(rows, m, op) == [month |-> m, operation |-> op, data |-> rows]

\* The dictionary _upload_single_batch returns for one outcome of the send.
\* response.json() on a body that is no JSON raises
\* requests.exceptions.JSONDecodeError, a RequestException (requests 2.27 and
\* later): the last handler returns its dictionary.
UploadSingleBatchResult(rows, outcome) ==
    CASE outcome = "ok" ->
            [success |-> TRUE, status_code |-> 200, response |-> "body",
             records_uploaded |-> Len(rows)]
      [] outcome = "ok_empty_body" ->
            [success |-> TRUE, status_code |-> 200, response |-> "{}",
             records_uploaded |-> Len(rows)]
      [] outcome = "timeout" ->
            [success |-> FALSE, error |-> "Request timed out after 60 seconds",
             records_uploaded |-> 0]
      [] outcome = "http_error" ->
            [success |-> FALSE, error |-> "HTTP error", status_code |-> 500,
             records_uploaded |-> 0]
      [] OTHER ->
            [success |-> FALSE, error |-> "Request failed", records_uploaded |-> 0]

-----------------------------------------------------------------------------
(* upload_billing_data                                                     *)

\* Mutant: every batch is sent with the caller's operation.
BatchOperationUnchanged(k, op) == op

\* First batch uses the caller's operation, subsequent batches use "sum".
BatchOperation(k, op) == IF k = 1 THEN op ELSE "sum"

\* A dry run that lists every batch with the caller's operation
DryRunBatchOperationVerbatim(k, op) == op

\* Line 131, the same rule in the dry run's listing
DryRunBatchOperation(k, op) == IF k = 1 THEN op ELSE "sum"

RECURSIVE SumUploaded(_)
SumUploaded(rs) ==
    IF rs = <<>> THEN 0
    ELSE (IF Head(rs).success THEN Head(rs).records_uploaded ELSE 0) + SumUploaded(Tail(rs))

\* Every result counted, failed or not
SuccessCountOfAttempts(rs) == Len(rs)

SuccessCount(rs) == Cardinality({k \in 1..Len(rs) : rs[k].success})

\* Mutant: the aggregate counts the batches that were attempted.
AggregateResultCountingAttempts(rs, bs) ==
    [success |-> Len(rs) = Len(bs),
     batches_uploaded |-> Len(rs),
     total_batches |-> Len(bs),
     records_uploaded |-> SumUploaded(rs),
     batch_results |-> rs]

AggregateResult(rs, bs) ==
    [success |-> SuccessCount(rs) = Len(bs),
     batches_uploaded |-> SuccessCount(rs),
     total_batches |-> Len(bs),
     records_uploaded |-> SumUploaded(rs),
     batch_results |-> rs]

XformIdle ==
    /\ source = "idle" /\ records = <<>> /\ cbf_out = <<>> /\ xpc = "idle"
    /\ output_file = <<>> /\ read_back = <<>>

MonthIdle ==
    /\ month_input = <<>>
    /\ months = <<>>
    /\ current = [year |-> 0, month |-> 0]
    /\ end_date = [year |-> 0, month |-> 0]
    /\ mpc = "idle"

FetchIdle ==
    /\ fpc = "idle"
    /\ page_num = 0
    /\ attempt = 0
    /\ api_calls = <<>>
    /\ sleeps = <<>>
    /\ all_items = <<>>

NoArgs ==
    [flag |-> "none", value |-> <<>>, no_upload |-> FALSE, dry_run |-> FALSE,
     operation |-> "none"]

NoCall == [called |-> FALSE]

MainIdle ==
    /\ args = NoArgs
    /\ environ = {}
    /\ mainpc = "idle"
    /\ months_to_process = <<>>
    /\ month_index = 0
    /\ all_cbf_rows = <<>>
    /\ trace = <<>>
    /\ upload_result = "none"
    /\ month_outcomes = <<>>
    /\ upload_call = NoCall
    /\ exit_status = -1

UploadIdle ==
    /\ cbf_rows = <<>>
    /\ month = <<>>
    /\ operation = "sum"
    /\ dry_run = FALSE
    /\ pc = "idle"
    /\ batches = <<>>
    /\ i = 0
    /\ results = <<>>
    /\ posts = <<>>
    /\ send_outcomes = <<>>
    /\ ret = NoResult
    /\ prepared = <<>>

InitUpload ==
    /\ cbf_rows \in RowLists
    /\ month \in UploadMonths
    /\ operation \in Operations
    /\ dry_run \in BOOLEAN
    /\ pc = "start"
    /\ batches = <<>>
    /\ i = 0
    /\ results = <<>>
    /\ posts = <<>>
    /\ send_outcomes = <<>>
    /\ ret = NoResult
    /\ prepared = <<>>
    /\ XformIdle
    /\ MonthIdle
    /\ FetchIdle
    /\ MainIdle

\* Lines 92-99: the two ValueErrors raised before anything is prepared.
RaiseInvalid ==
    /\ pc = "start"
    /\ cbf_rows = <<>> \/ ~StrptimeYmOk(month)
    /\ pc' = "raised"
    /\ UNCHANGED <<cbf_rows, month, operation, dry_run, batches, i, results, posts, send_outcomes, ret,
                   prepared>>
    /\ UNCHANGED <<xformVars, monthVars, fetchVars, mainVars>>

\* Lines 108-152: the payload exceeds 5 MiB and dry_run is set: the batches
\* are planned and listed, nothing is sent.
PlanBatchedDryRun ==
    /\ pc = "start"
    /\ cbf_rows # <<>> /\ StrptimeYmOk(month)
    /\ CalculatePayloadSize(month, operation, cbf_rows) > max_size_bytes
    /\ dry_run
    /\ batches' = SplitIntoBatches(cbf_rows)
    /\ ret' = [dry_run |-> TRUE, payload_records |-> Len(cbf_rows),
               batches |-> Len(batches'), status |-> "prepared_batched"]
    /\ pc' = "done"
    /\ prepared' = [k \in 1..Len(batches') |->
                        Request(batches'[k], month, DryRunBatchOperation(k, operation))]
    /\ UNCHANGED <<cbf_rows, month, operation, dry_run, i, results, posts, send_outcomes>>
    /\ UNCHANGED <<xformVars, monthVars, fetchVars, mainVars>>

\* Lines 108-127, 153-155: the payload exceeds 5 MiB: plan and enter the loop.
PlanBatched ==
    /\ pc = "start"
    /\ cbf_rows # <<>> /\ StrptimeYmOk(month)
    /\ CalculatePayloadSize(month, operation, cbf_rows) > max_size_bytes
    /\ ~dry_run
    /\ batches' = SplitIntoBatches(cbf_rows)
    /\ i' = 1
    /\ results' = <<>>
    /\ pc' = "loop"
    /\ UNCHANGED <<cbf_rows, month, operation, dry_run, posts, send_outcomes, ret, prepared>>
    /\ UNCHANGED <<xformVars, monthVars, fetchVars, mainVars>>

\* Mutant: the loop does not stop at a failed batch.
UploadBatchNoBreak ==
    /\ pc = "loop"
    /\ i <= Len(batches)
    /\ \E outcome \in SendOutcomes :
         LET batch == batches[i]
             batch_operation == BatchOperation(i, operation)
             result == UploadSingleBatchResult(batch, outcome)
         IN /\ posts' = Append(posts, Request(batch, month, batch_operation))
            /\ send_outcomes' = Append(send_outcomes, outcome)
            /\ results' = Append(results, result)
            /\ IF i = Len(batches)
               THEN pc' = "aggregate" /\ i' = i
               ELSE pc' = "loop" /\ i' = i + 1
    /\ UNCHANGED <<cbf_rows, month, operation, dry_run, batches, ret, prepared>>
    /\ UNCHANGED <<xformVars, monthVars, fetchVars, mainVars>>

\* Lines 156-164: one iteration of the loop: send batch i, record its result,
\* leave the loop on a failure or after the last batch.
UploadBatch ==
    /\ pc = "loop"
    /\ i <= Len(batches)
    /\ \E outcome \in SendOutcomes :
         LET batch == batches[i]
             batch_operation == BatchOperation(i, operation)
             result == UploadSingleBatchResult(batch, outcome)
         IN /\ posts' = Append(posts, Request(batch, month, batch_operation))
            /\ send_outcomes' = Append(send_outcomes, outcome)
            /\ results' = Append(results, result)
            /\ IF ~result.success \/ i = Len(batches)
               THEN pc' = "aggregate" /\ i' = i
               ELSE pc' = "loop" /\ i' = i + 1
    /\ UNCHANGED <<cbf_rows, month, operation, dry_run, batches, ret, prepared>>
    /\ UNCHANGED <<xformVars, monthVars, fetchVars, mainVars>>

\* Lines 166-175: the aggregate result.
Aggregate ==
    /\ pc = "aggregate"
    /\ ret' = AggregateResult(results, batches)
    /\ pc' = "done"
    /\ UNCHANGED <<cbf_rows, month, operation, dry_run, batches, i, results, posts, send_outcomes,
                   prepared>>
    /\ UNCHANGED <<xformVars, monthVars, fetchVars, mainVars>>

\* Mutant: the single-payload path does not look at dry_run.
SingleDryRunSends ==
    /\ pc = "start"
    /\ cbf_rows # <<>> /\ StrptimeYmOk(month)
    /\ CalculatePayloadSize(month, operation, cbf_rows) <= max_size_bytes
    /\ dry_run
    /\ \E outcome \in SendOutcomes :
         /\ posts' = Append(posts, Request(cbf_rows, month, operation))
         /\ send_outcomes' = Append(send_outcomes, outcome)
         /\ ret' = UploadSingleBatchResult(cbf_rows, outcome)
    /\ pc' = "done"
    /\ UNCHANGED <<cbf_rows, month, operation, dry_run, batches, i, results, prepared>>
    /\ UNCHANGED <<xformVars, monthVars, fetchVars, mainVars>>

\* Lines 176-187: the payload fits and dry_run is set.
SingleDryRun ==
    /\ pc = "start"
    /\ cbf_rows # <<>> /\ StrptimeYmOk(month)
    /\ CalculatePayloadSize(month, operation, cbf_rows) <= max_size_bytes
    /\ dry_run
    /\ ret' = [dry_run |-> TRUE, payload_records |-> Len(cbf_rows), status |-> "prepared"]
    /\ pc' = "done"
    /\ UNCHANGED <<cbf_rows, month, operation, dry_run, batches, i, results, posts, send_outcomes,
                   prepared>>
    /\ UNCHANGED <<xformVars, monthVars, fetchVars, mainVars>>

\* Lines 188-189: the payload fits: one request with all rows.
SingleUpload ==
    /\ pc = "start"
    /\ cbf_rows # <<>> /\ StrptimeYmOk(month)
    /\ CalculatePayloadSize(month, operation, cbf_rows) <= max_size_bytes
    /\ ~dry_run
    /\ \E outcome \in SendOutcomes :
         /\ posts' = Append(posts, Request(cbf_rows, month, operation))
         /\ send_outcomes' = Append(send_outcomes, outcome)
         /\ ret' = UploadSingleBatchResult(cbf_rows, outcome)
    /\ pc' = "done"
    /\ UNCHANGED <<cbf_rows, month, operation, dry_run, batches, i, results, prepared>>
    /\ UNCHANGED <<xformVars, monthVars, fetchVars, mainVars>>

NextUpload ==
    \/ RaiseInvalid
    \/ PlanBatchedDryRun
    \/ PlanBatched
    \/ UploadBatch
    \/ Aggregate
    \/ SingleDryRun
    \/ SingleUpload

Spec == InitUpload /\ [][NextUpload]_vars

-----------------------------------------------------------------------------
(* Properties of upload_billing_data                                       *)

FiveMiB == 5 * 1024 * 1024

\* The upload took the batched, non-dry-run path.
BatchedRun == ~dry_run /\ pc \in {"loop", "aggregate", "done"} /\ batches # <<>>

\* C1: in a batched non-dry-run upload the k-th POST issued carries the
\* caller's operation when k = 1 and "sum" when k > 1.
C1_FirstBatchOperationThenSum ==
    BatchedRun =>
        \A k \in 1..Len(posts) :
            posts[k].operation = (IF k = 1 THEN operation ELSE "sum")

\* C1 witness: three batches of a replace_drop upload were sent as
\* replace_drop, sum, sum.
C1_Witness ==
    /\ BatchedRun
    /\ operation = "replace_drop"
    /\ Len(posts) = 3
    /\ <<posts[1].operation, posts[2].operation, posts[3].operation>>
         = <<"replace_drop", "sum", "sum">>

\* C2: batches are sent one at a time in planned order, and after the send of
\* batch k failed no POST is issued for a later batch: the k-th POST carries
\* batch k, every POST has its result, and every POST before the last one
\* succeeded.
C2_NoPostAfterFailure ==
    BatchedRun =>
        /\ Len(posts) = Len(results)
        /\ Len(posts) <= Len(batches)
        /\ \A k \in 1..Len(posts) :
             /\ posts[k].data = batches[k]
             /\ k < Len(posts) => results[k].success

\* C2 witness: batch 2 of 3 failed and the upload ended with two POSTs.
C2_Witness ==
    /\ BatchedRun
    /\ pc = "done"
    /\ Len(batches) = 3
    /\ Len(posts) = 2
    /\ results[1].success
    /\ ~results[2].success

RECURSIVE RowsOfSucceeded(_, _, _)
RowsOfSucceeded(rs, bs, k) ==
    IF k > Len(rs) THEN 0
    ELSE (IF rs[k].success THEN Len(bs[k]) ELSE 0) + RowsOfSucceeded(rs, bs, k + 1)

RECURSIVE Succeeded(_, _)
Succeeded(rs, k) ==
    IF k > Len(rs) THEN 0 ELSE (IF rs[k].success THEN 1 ELSE 0) + Succeeded(rs, k + 1)

\* C3: the aggregate result of a batched non-dry-run upload: success iff
\* every planned batch was sent and succeeded, batches_uploaded the number of
\* batches that succeeded, records_uploaded the rows of the batches that
\* succeeded, total_batches the number of planned batches, batch_results the
\* per-batch results in the order sent.
C3_AggregateResult ==
    (BatchedRun /\ pc = "done") =>
        /\ ret.success <=>
             (Len(results) = Len(batches) /\ \A k \in 1..Len(results) : results[k].success)
        /\ ret.batches_uploaded = Succeeded(results, 1)
        /\ ret.records_uploaded = RowsOfSucceeded(results, batches, 1)
        /\ ret.total_batches = Len(batches)
        /\ ret.batch_results = results

\* C3 witness: the last of three batches failed: two batches and their rows
\* are reported, and the upload is not a success.
C3_Witness ==
    /\ BatchedRun
    /\ pc = "done"
    /\ Len(batches) = 3
    /\ Len(results) = 3
    /\ ~results[3].success
    /\ ret.batches_uploaded = 2
    /\ ~ret.success

\* C4: when the full payload exceeds 5 MiB, the serialized size of
\* {month, batch operation, data: batch} of every planned batch is at most the
\* per-batch ceiling, except for a batch of exactly one row (a row whose
\* payload alone exceeds the ceiling).
C4_BatchWithinCeiling ==
    \A k \in 1..Len(batches) :
        \/ CalculatePayloadSize(month, (IF k = 1 THEN operation ELSE "sum"), batches[k])
             <= (45 * 1024 * 1024) \div 10
        \/ Len(batches[k]) = 1

\* C4 witness: a replace_hourly upload (an envelope longer than the one the
\* planner assumes) whose first batch holds two rows and whose second batch
\* is one oversized row.
C4_Witness ==
    /\ operation = "replace_hourly"
    /\ Len(batches) = 2
    /\ Len(batches[1]) = 2
    /\ Len(batches[2]) = 1
    /\ CalculatePayloadSize(month, "sum", batches[2]) > (45 * 1024 * 1024) \div 10

\* C5: a non-empty row list whose full payload is at most 5 MiB is uploaded
\* as one request holding all rows in their order with the caller's
\* operation, and rows are split only when the payload exceeds 5 MiB.
C5_SingleBatchUpToFiveMiB ==
    /\ (pc = "done" /\ ~dry_run /\ CalculatePayloadSize(month, operation, cbf_rows) <= FiveMiB)
         => (batches = <<>> /\ posts = <<Request(cbf_rows, month, operation)>>)
    /\ batches # <<>> => CalculatePayloadSize(month, operation, cbf_rows) > FiveMiB

\* C5 witness: a payload of several rows above the planner's 4.5 MiB target
\* and not above 5 MiB went out as one request.
C5_Witness ==
    /\ pc = "done"
    /\ ~dry_run
    /\ Len(cbf_rows) >= 2
    /\ CalculatePayloadSize(month, operation, cbf_rows) > (45 * 1024 * 1024) \div 10
    /\ CalculatePayloadSize(month, operation, cbf_rows) <= FiveMiB
    /\ Len(posts) = 1
    /\ posts[1].data = cbf_rows

\* C6: with dry_run set no request is ever issued.
C6_DryRunSendsNothing == dry_run => posts = <<>>

\* C6 witness: a dry run of an upload that was planned as three batches
\* returned.
C6_Witness ==
    /\ dry_run
    /\ pc = "done"
    /\ Len(batches) = 3
    /\ ret.status = "prepared_batched"
    /\ posts = <<>>

-----------------------------------------------------------------------------
(* Text of service names and amounts                                       *)

UpperChars ==
    <<"A", "B", "C", "D", "E", "F", "G", "H", "I", "J", "K", "L", "M",
      "N", "O", "P", "Q", "R", "S", "T", "U", "V", "W", "X", "Y", "Z">>

LowerChars ==
    <<"a", "b", "c", "d", "e", "f", "g", "h", "i", "j", "k", "l", "m",
      "n", "o", "p", "q", "r", "s", "t", "u", "v", "w", "x", "y", "z">>

LowerChar(c) ==
    IF \E k \in 1..26 : UpperChars[k] = c
    THEN LowerChars[CHOOSE k \in 1..26 : UpperChars[k] = c]
    ELSE c

\* str.lower()
Lower(s) == [k \in 1..Len(s) |-> LowerChar(s[k])]

\* sub in s
Contains(sub, s) ==
    \E k \in 0..(Len(s) - Len(sub)) : SubSeq(s, k + 1, k + Len(sub)) = sub

\* str.strip(), with the space as the only whitespace
RECURSIVE Strip(_)
Strip(s) ==
    IF s = <<>> THEN s
    ELSE IF Head(s) = " " THEN Strip(Tail(s))
    ELSE IF s[Len(s)] = " " THEN Strip(SubSeq(s, 1, Len(s) - 1))
    ELSE s

\* str.replace(' ', '-')
ReplaceSpaces(s) == [k \in 1..Len(s) |-> IF s[k] = " " THEN "-" ELSE s[k]]

kw_support == <<"s", "u", "p", "p", "o", "r", "t">>
kw_reserved == <<"r", "e", "s", "e", "r", "v", "e", "d">>
kw_commitment == <<"c", "o", "m", "m", "i", "t", "m", "e", "n", "t">>
kw_credit == <<"c", "r", "e", "d", "i", "t">>

\* Service names the inputs draw from.
svc_Compute == <<"C", "o", "m", "p", "u", "t", "e">>
svc_SUPPORT == <<"S", "U", "P", "P", "O", "R", "T">>
svc_ReservedSupport ==
    <<"R", "e", "s", "e", "r", "v", "e", "d", " ", "S", "u", "p", "p", "o", "r", "t">>
svc_reserved == <<"r", "e", "s", "e", "r", "v", "e", "d">>
svc_CommitmentCredit ==
    <<"C", "o", "m", "m", "i", "t", "m", "e", "n", "t", " ", "C", "r", "e", "d", "i", "t">>
svc_Credit == <<"C", "r", "e", "d", "i", "t">>

Services ==
    { <<>>, svc_Compute, svc_SUPPORT, svc_ReservedSupport, svc_reserved,
      svc_CommitmentCredit, svc_Credit }

txt_Unknown == <<"U", "n", "k", "n", "o", "w", "n">>

\* A float is modelled by its sign bit and its magnitude in tenths, so that
\* -0.0 is a value of its own.
Float(neg, mag) == [neg |-> neg, mag |-> mag]

FloatZero == Float(FALSE, 0)

\* x < 0 for a float x
IsNegative(x) == x.neg /\ x.mag > 0

RECURSIVE DecText(_)
DecText(n) == IF n < 10 THEN <<DigitChar(n)>> ELSE DecText(n \div 10) \o <<DigitChar(n % 10)>>

\* str(x) for a float x: sign, integer part, ".", one fractional digit.
StrFloat(x) ==
    (IF x.neg THEN <<"-">> ELSE <<>>) \o DecText(x.mag \div 10) \o <<".">>
        \o <<DigitChar(x.mag % 10)>>

\* The unsigned numerals float() is given here: digits, or digits "." digit.
NumeralOk(s) ==
    \/ Len(s) >= 1 /\ AllDigits(s)
    \/ /\ Len(s) >= 3
       /\ s[Len(s) - 1] = "."
       /\ IsDigit(s[Len(s)])
       /\ AllDigits(SubSeq(s, 1, Len(s) - 2))

NumeralTenths(s) ==
    IF AllDigits(s) THEN 10 * NumVal(s)
    ELSE 10 * NumVal(SubSeq(s, 1, Len(s) - 2)) + DigitVal(s[Len(s)])

\* float(s): <<x>> for the float read, <<>> for a ValueError.
ParseFloat(s) ==
    LET neg == Len(s) >= 1 /\ s[1] = "-"
        body == IF neg THEN Tail(s) ELSE s
    IN IF NumeralOk(body) THEN <<Float(neg, NumeralTenths(body))>> ELSE <<>>

\* ---- values of the optional fields ----

\* None, and a key a CSV record does not have.  Neither is a text: a text is
\* a sequence of one-character strings.
PyNone == <<"<None>">>
Absent == <<"<absent>">>

IsText(v) == v # PyNone /\ v # Absent

\* bool(v) for None or a text
Truthy(v) == IsText(v) /\ v # <<>>

\* record.get(key, default)
Get(record, key, default) == IF record[key] = Absent THEN default ELSE record[key]

\* What an f-string makes of v: the text itself, "None" for None.
FormatValue(v) == IF v = PyNone THEN <<"N", "o", "n", "e">> ELSE v

-----------------------------------------------------------------------------
(* Classification and transforms                                           *)

MaxRecords == 2

\* computed_amount of an API item: <<>> for None, <<x>> for a number.
\* None, -0.5, 0.0, 12.5
ApiAmounts == { <<>>, <<Float(TRUE, 5)>>, <<Float(FALSE, 0)>>, <<Float(FALSE, 125)>> }

\* computed_amount of a CSV record: "", "-5", "12.5", "abc".
CsvAmounts == { <<>>, <<"-", "5">>, <<"1", "2", ".", "5">>, <<"a", "b", "c">> }

txt_ocid1 == <<"o", "c", "i", "d", "1">>
txt_with_T ==
    <<"2", "0", "2", "4", "-", "0", "8", "-", "0", "1", "T", "0", "5", ":", "0", "0", "Z">>

\* An API item and a CSV record with every field in order.
BaseApiItem ==
    [service |-> svc_Compute, computed_amount |-> <<Float(FALSE, 125)>>,
     resource_id |-> txt_ocid1, resource_name |-> PyNone, region |-> PyNone,
     compartment_name |-> PyNone,
     time_usage_started |-> [kind |-> "str", text |-> txt_with_T],
     freeform_tags |-> <<>>]

BaseCsvRecord ==
    [service |-> svc_Compute, computed_amount |-> <<"1", "2", ".", "5">>,
     resource_id |-> txt_ocid1, resource_name |-> <<>>, region |-> <<>>,
     compartment_name |-> <<>>, time_usage_started |-> txt_with_T, tags |-> <<>>]

\* Every service with every amount.
ApiItems ==
    { [BaseApiItem EXCEPT !.service = s, !.computed_amount = a] :
        s \in Services, a \in ApiAmounts }

CsvRecords ==
    { [BaseCsvRecord EXCEPT !.service = s, !.computed_amount = a] :
        s \in Services, a \in CsvAmounts }

ListsOf(S) == UNION { [1..n -> S] : n \in 0..MaxRecords }

\* The service tests shared by both classifiers (the if/elif chain).
ServiceType(service) ==
    IF Contains(kw_support, service) THEN "Support"
    ELSE IF Contains(kw_reserved, service) \/ Contains(kw_commitment, service)
         THEN "CommittedUsePurchase"
    ELSE IF Contains(kw_credit, service) THEN "Discount"
    ELSE "Usage"

\* Mutant: "reserved"/"commitment" is tested before "support".
DetermineLineitemTypeReservedFirst(item) ==
    LET service == Lower(item.service)
        amount == IF item.computed_amount = <<>> THEN FloatZero ELSE item.computed_amount[1]
    IN IF IsNegative(amount) THEN "Discount"
       ELSE IF Contains(kw_reserved, service) \/ Contains(kw_commitment, service)
            THEN "CommittedUsePurchase"
       ELSE IF Contains(kw_support, service) THEN "Support"
       ELSE IF Contains(kw_credit, service) THEN "Discount"
       ELSE "Usage"

\* determine_lineitem_type (oci_transform.py)
DetermineLineitemType(item) ==
    LET service == Lower(item.service)
        amount == IF item.computed_amount = <<>> THEN FloatZero ELSE item.computed_amount[1]
    IN IF IsNegative(amount) THEN "Discount" ELSE ServiceType(service)

\* Mutant: the service is looked at before the sign of the amount.
DetermineLineitemTypeFromCsvServiceFirst(record, cost_value) ==
    LET service == Lower(Get(record, "service", <<>>))
    IN IF ServiceType(service) # "Usage" THEN ServiceType(service)
       ELSE IF IsNegative(cost_value) THEN "Discount" ELSE "Usage"

\* determine_lineitem_type_from_csv (csv_to_cbf.py)
DetermineLineitemTypeFromCsv(record, cost_value) ==
    LET service == Lower(Get(record, "service", <<>>))
    IN IF IsNegative(cost_value) THEN "Discount" ELSE ServiceType(service)

txt_unknown == <<"u", "n", "k", "n", "o", "w", "n">>
txt_unknown_region == txt_unknown \o <<"-", "r", "e", "g", "i", "o", "n">>
txt_unknown_compartment ==
    txt_unknown \o <<"-", "c", "o", "m", "p", "a", "r", "t", "m", "e", "n", "t">>

\* f"{service.lower()}-{region}-{compartment}".replace(' ', '-')
SynthesizedId(service, region, compartment) ==
    ReplaceSpaces(Lower(service) \o <<"-">> \o FormatValue(region) \o <<"-">>
                  \o FormatValue(compartment))

\* build_resource_id (oci_transform.py); the attributes of an item always
\* exist, so getattr never takes its default.
BuildResourceId(item) ==
    IF Truthy(item.resource_id) THEN item.resource_id
    ELSE IF Truthy(item.resource_name) THEN item.resource_name
    ELSE SynthesizedId(item.service, item.region, item.compartment_name)

\* build_resource_id_from_csv (csv_to_cbf.py)
BuildResourceIdFromCsv(record) ==
    IF Truthy(record.resource_id) /\ Strip(record.resource_id) # <<>>
    THEN record.resource_id
    ELSE IF Truthy(record.resource_name) /\ Strip(record.resource_name) # <<>>
    THEN record.resource_name
    ELSE SynthesizedId(Get(record, "service", txt_unknown),
                       Get(record, "region", txt_unknown_region),
                       Get(record, "compartment_name", txt_unknown_compartment))

\* ---- usage start time ----

\* A datetime (to the hour), a str, or None as time_usage_started of an item.
Datetime(y, m, d, h) == [kind |-> "datetime", year |-> y, month |-> m, day |-> d, hour |-> h]
TimeStr(s) == [kind |-> "str", text |-> s]
NoTime == [kind |-> "none"]

\* datetime.now(): some moment after every timestamp of the inputs.
Now == Datetime(2026, 1, 15, 9)

txt_midnight_suffix ==
    <<"T", "0", "0", ":", "0", "0", ":", "0", "0", ".", "0", "0", "0", "0", "0", "0", "Z">>

\* d.strftime("%Y-%m-%dT%H:%M:%S.%fZ")
StrftimeUsage(d) ==
    FourDigits(d.year) \o <<"-">> \o TwoDigits(d.month) \o <<"-">> \o TwoDigits(d.day)
        \o <<"T">> \o TwoDigits(d.hour)
        \o <<":", "0", "0", ":", "0", "0", ".", "0", "0", "0", "0", "0", "0", "Z">>

\* format_usage_time (oci_transform.py)
FormatUsageTime(usage_time) ==
    CASE usage_time.kind = "datetime" -> StrftimeUsage(usage_time)
      [] usage_time.kind = "str" -> usage_time.text
      [] OTHER -> StrftimeUsage(Now)

\* format_csv_usage_time (csv_to_cbf.py); record.get gives None for a key
\* the record does not have.
FormatCsvUsageTime(time_str) ==
    IF ~Truthy(time_str) \/ Strip(time_str) = <<>> THEN StrftimeUsage(Now)
    ELSE IF Contains(<<"T">>, time_str) THEN time_str
    ELSE time_str \o txt_midnight_suffix

\* ---- tags ----

\* A tag value: a str or an int.
TagStr(s) == [kind |-> "str", text |-> s]
TagInt(n) == [kind |-> "int", n |-> n]

\* str(value)
StrValue(v) == IF v.kind = "str" THEN v.text ELSE DecText(v.n)

\* The field name without lower().
TagKeyVerbatim(key) == <<"t", "a", "g", "/">> \o key

\* f"tag/{key.lower()}"
TagKey(key) == <<"t", "a", "g", "/">> \o Lower(key)

\* The loop of oci_transform.py:70-72 over the tags in the mapping's order;
\* acc holds the tag fields of the row so far.
RECURSIVE TagFieldsFrom(_, _)
TagFieldsFrom(tags, acc) ==
    IF tags = <<>> THEN acc
    ELSE TagFieldsFrom(Tail(tags),
            [f \in DOMAIN acc \cup {TagKey(Head(tags).key)} |->
                IF f = TagKey(Head(tags).key) THEN StrValue(Head(tags).value) ELSE acc[f]])

NoFields == [f \in {} |-> <<>>]

TagFields(tags) == TagFieldsFrom(tags, NoFields)

\* The tag of csv_to_cbf.py:112-123: a marker, whatever the tags say.
CsvTagFields(tags_str) ==
    IF Truthy(tags_str) /\ tags_str # <<"n", "u", "l", "l">>
    THEN [f \in {TagKey(<<"s", "o", "u", "r", "c", "e">>)} |-> <<"o", "c", "i", "-", "c", "s", "v">>]
    ELSE NoFields

\* The row transform_oci_to_cbf builds for one item.
OciRow(item) ==
    LET lineitem_type == DetermineLineitemType(item)
        cost_value == IF item.computed_amount # <<>> THEN item.computed_amount[1] ELSE FloatZero
        cost == StrFloat(cost_value)
        negative == IsNegative(ParseFloat(cost)[1])
    IN [lineitem_type |-> IF negative THEN "Discount" ELSE lineitem_type,
        service |-> IF Truthy(item.service) THEN item.service ELSE txt_Unknown,
        cost |-> cost,
        discounted_cost |-> cost]

\* The whole row: type, service and costs, then resource/id,
\* time/usage_start and the tag fields.
OciCbfRow(item) ==
    [lineitem_type |-> OciRow(item).lineitem_type,
     service |-> OciRow(item).service,
     cost |-> OciRow(item).cost,
     discounted_cost |-> OciRow(item).discounted_cost,
     resource_id |-> BuildResourceId(item),
     usage_start |-> FormatUsageTime(item.time_usage_started),
     tags |-> TagFields(item.freeform_tags)]

\* The item makes transform_oci_to_cbf raise: None has no lower()
\* (determine_lineitem_type, line 89).
OciRaises(item) == item.service = PyNone

\* transform_oci_to_cbf, when no item raises
TransformOciToCbf(items) == [k \in 1..Len(items) |-> OciCbfRow(items[k])]

\* not record.get('computed_amount')
CsvSkipped(record) == ~Truthy(record.computed_amount)

\* The row transform_csv_to_cbf builds for one record that is not skipped.
CsvRow(record) ==
    LET parsed == ParseFloat(record.computed_amount)
        cost_value == IF parsed # <<>> THEN parsed[1] ELSE FloatZero
        cost == StrFloat(cost_value)
    IN [lineitem_type |-> DetermineLineitemTypeFromCsv(record, cost_value),
        service |-> Get(record, "service", txt_Unknown),
        cost |-> cost,
        discounted_cost |-> cost]

\* The whole row.
CsvCbfRow(record) ==
    [lineitem_type |-> CsvRow(record).lineitem_type,
     service |-> CsvRow(record).service,
     cost |-> CsvRow(record).cost,
     discounted_cost |-> CsvRow(record).discounted_cost,
     resource_id |-> BuildResourceIdFromCsv(record),
     usage_start |-> FormatCsvUsageTime(Get(record, "time_usage_started", PyNone)),
     tags |-> CsvTagFields(Get(record, "tags", PyNone))]

\* The record makes transform_csv_to_cbf raise: a service that is None
\* (a line of the file shorter than its header) has no lower()
\* (determine_lineitem_type_from_csv, line 146).
CsvRaises(record) == ~CsvSkipped(record) /\ record.service = PyNone

\* transform_csv_to_cbf, when no record raises
RECURSIVE TransformCsvToCbf(_)
TransformCsvToCbf(recs) ==
    IF recs = <<>> THEN <<>>
    ELSE IF CsvSkipped(Head(recs)) THEN TransformCsvToCbf(Tail(recs))
    ELSE <<CsvCbfRow(Head(recs))>> \o TransformCsvToCbf(Tail(recs))

InitTransform ==
    /\ \/ source = "api" /\ records \in ListsOf(ApiItems)
       \/ source = "csv" /\ records \in ListsOf(CsvRecords)
    /\ cbf_out = <<>>
    /\ xpc = "start"
    /\ output_file = <<>>
    /\ read_back = <<>>
    /\ UploadIdle
    /\ MonthIdle
    /\ FetchIdle
    /\ MainIdle

TransformApi ==
    /\ xpc = "start"
    /\ source = "api"
    /\ IF \E k \in 1..Len(records) : OciRaises(records[k])
       THEN cbf_out' = <<>> /\ xpc' = "raised"
       ELSE cbf_out' = TransformOciToCbf(records) /\ xpc' = "done"
    /\ UNCHANGED <<source, records, output_file, read_back>>
    /\ UNCHANGED <<uploadVars, monthVars, fetchVars, mainVars>>

TransformCsv ==
    /\ xpc = "start"
    /\ source = "csv"
    /\ IF \E k \in 1..Len(records) : CsvRaises(records[k])
       THEN cbf_out' = <<>> /\ xpc' = "raised"
       ELSE cbf_out' = TransformCsvToCbf(records) /\ xpc' = "done"
    /\ UNCHANGED <<source, records, output_file, read_back>>
    /\ UNCHANGED <<uploadVars, monthVars, fetchVars, mainVars>>

NextTransform == TransformApi \/ TransformCsv

SpecTransform == InitTransform /\ [][NextTransform]_vars

\* ---- records whose optional fields vary ----

txt_MyDb == <<"M", "y", " ", "D", "b">>
txt_USEast == <<"U", "S", " ", "E", "a", "s", "t">>
txt_ProdTeam == <<"P", "r", "o", "d", " ", "T", "e", "a", "m">>
txt_us1 == <<"u", "s", "-", "1">>
txt_dev == <<"d", "e", "v">>
txt_date == <<"2", "0", "2", "4", "-", "0", "8", "-", "0", "1">>
txt_Env == <<"E", "n", "v">>
txt_env == <<"e", "n", "v">>
txt_Team == <<"T", "e", "a", "m">>

Tag(key, value) == [key |-> key, value |-> value]

\* API items: the item in order; a service or an amount of None; no resource
\* id, with and without a name, region and compartment; the kinds of
\* time_usage_started; tag mappings of one and two tags.
FieldApiItems ==
    { BaseApiItem,
      [BaseApiItem EXCEPT !.service = PyNone],
      [BaseApiItem EXCEPT !.computed_amount = <<>>],
      [BaseApiItem EXCEPT !.resource_id = <<>>, !.resource_name = txt_MyDb],
      [BaseApiItem EXCEPT !.resource_id = PyNone, !.region = txt_USEast,
                          !.compartment_name = txt_ProdTeam],
      [BaseApiItem EXCEPT !.resource_id = PyNone, !.resource_name = <<>>],
      [BaseApiItem EXCEPT !.resource_id = PyNone, !.region = txt_us1,
                          !.compartment_name = txt_dev],
      [BaseApiItem EXCEPT !.time_usage_started = Datetime(2024, 8, 1, 5)],
      [BaseApiItem EXCEPT !.time_usage_started = TimeStr(txt_date)],
      [BaseApiItem EXCEPT !.time_usage_started = TimeStr(<<>>)],
      [BaseApiItem EXCEPT !.time_usage_started = NoTime],
      [BaseApiItem EXCEPT !.freeform_tags = <<Tag(txt_Env, TagStr(txt_dev))>>],
      [BaseApiItem EXCEPT !.freeform_tags =
          <<Tag(txt_Env, TagStr(txt_dev)), Tag(txt_env, TagStr(txt_us1))>>],
      [BaseApiItem EXCEPT !.freeform_tags =
          <<Tag(txt_Team, TagInt(7)), Tag(txt_env, TagStr(txt_dev))>>] }

\* CSV records: the record in order; a service that is None or not there; an
\* amount that is no number or empty; a blank resource id with a name, no
\* resource id and no name; the kinds of time_usage_started; tags.
FieldCsvRecords ==
    { BaseCsvRecord,
      [BaseCsvRecord EXCEPT !.service = PyNone],
      [BaseCsvRecord EXCEPT !.service = Absent, !.resource_id = <<>>,
                            !.region = Absent, !.compartment_name = Absent],
      [BaseCsvRecord EXCEPT !.computed_amount = <<"a", "b", "c">>],
      [BaseCsvRecord EXCEPT !.computed_amount = <<>>],
      [BaseCsvRecord EXCEPT !.resource_id = <<" ", " ">>, !.resource_name = txt_MyDb],
      [BaseCsvRecord EXCEPT !.resource_id = <<>>, !.region = txt_USEast,
                            !.compartment_name = txt_ProdTeam],
      [BaseCsvRecord EXCEPT !.resource_id = <<>>, !.region = txt_us1,
                            !.compartment_name = txt_dev],
      [BaseCsvRecord EXCEPT !.time_usage_started = txt_date],
      [BaseCsvRecord EXCEPT !.time_usage_started = <<>>],
      [BaseCsvRecord EXCEPT !.time_usage_started = <<" ">>],
      [BaseCsvRecord EXCEPT !.time_usage_started = Absent],
      [BaseCsvRecord EXCEPT !.tags = txt_dev],
      [BaseCsvRecord EXCEPT !.tags = <<"n", "u", "l", "l">>] }

InitRecords ==
    /\ \/ source = "api" /\ records \in ListsOf(FieldApiItems)
       \/ source = "csv" /\ records \in ListsOf(FieldCsvRecords)
    /\ cbf_out = <<>>
    /\ xpc = "start"
    /\ output_file = <<>>
    /\ read_back = <<>>
    /\ UploadIdle
    /\ MonthIdle
    /\ FetchIdle
    /\ MainIdle

SpecRecords == InitRecords /\ [][NextTransform]_vars

-----------------------------------------------------------------------------
(* Properties of the classification                                        *)

\* The amount of a record as a float: None, "" and text that is no number
\* count as 0.0.
AmountOf(r) ==
    IF source = "api"
    THEN (IF r.computed_amount = <<>> THEN FloatZero ELSE r.computed_amount[1])
    ELSE (IF ParseFloat(r.computed_amount) = <<>> THEN FloatZero
          ELSE ParseFloat(r.computed_amount)[1])

\* The records that get a row, in order.
Emitted == IF source = "api" THEN records ELSE SelectSeq(records, LAMBDA r : r.computed_amount # <<>>)

\* The priority order of the classification, first match wins.
PriorityType(service, negative) ==
    CASE negative -> "Discount"
      [] ~negative /\ Contains(kw_support, Lower(service)) -> "Support"
      [] ~negative /\ ~Contains(kw_support, Lower(service))
           /\ (Contains(kw_reserved, Lower(service)) \/ Contains(kw_commitment, Lower(service)))
           -> "CommittedUsePurchase"
      [] ~negative /\ ~Contains(kw_support, Lower(service))
           /\ ~Contains(kw_reserved, Lower(service)) /\ ~Contains(kw_commitment, Lower(service))
           /\ Contains(kw_credit, Lower(service)) -> "Discount"
      [] OTHER -> "Usage"

\* C7: every emitted row has the type the priority order gives for (service,
\* sign of the amount), and the API classifier with the override of
\* transform_oci_to_cbf and the CSV classifier agree on every (service,
\* amount) of the input.
C7_ClassificationPriority ==
    /\ xpc = "done" =>
         /\ Len(cbf_out) = Len(Emitted)
         /\ \A k \in 1..Len(cbf_out) :
              cbf_out[k].lineitem_type
                = PriorityType(Emitted[k].service, IsNegative(AmountOf(Emitted[k])))
    /\ \A k \in 1..Len(records) :
         LET r == records[k]
             x == AmountOf(r)
         IN OciRow([service |-> r.service, computed_amount |-> <<x>>]).lineitem_type
              = DetermineLineitemTypeFromCsv([service |-> r.service], x)

\* C7 witness: "Reserved Support" with a positive amount came out as Support.
C7_Witness ==
    /\ xpc = "done"
    /\ source = "api"
    /\ \E k \in 1..Len(records) :
         /\ records[k].service = svc_ReservedSupport
         /\ records[k].computed_amount = <<Float(FALSE, 125)>>
         /\ cbf_out[k].lineitem_type = "Support"

\* C8: the row emitted for a record whose computed amount is negative has
\* type Discount, and its cost and discounted cost are the text of that
\* negative amount, sign included, whatever the service is.
C8_NegativeAmountIsDiscount ==
    xpc = "done" =>
        /\ Len(cbf_out) = Len(Emitted)
        /\ \A k \in 1..Len(cbf_out) :
             IsNegative(AmountOf(Emitted[k])) =>
                 /\ cbf_out[k].lineitem_type = "Discount"
                 /\ Head(cbf_out[k].cost) = "-"
                 /\ ParseFloat(cbf_out[k].cost) = <<AmountOf(Emitted[k])>>
                 /\ cbf_out[k].discounted_cost = cbf_out[k].cost

\* C8 witness: a CSV record of a support service with amount "-5" came out
\* as a Discount row with cost "-5.0".
C8_Witness ==
    /\ xpc = "done"
    /\ source = "csv"
    /\ \E k \in 1..Len(records) :
         /\ records[k].service = svc_SUPPORT
         /\ records[k].computed_amount = <<"-", "5">>
         /\ Len(cbf_out) >= k
         /\ cbf_out[k].lineitem_type = "Discount"
         /\ cbf_out[k].cost = <<"-", "5", ".", "0">>
         /\ cbf_out[k].discounted_cost = <<"-", "5", ".", "0">>

-----------------------------------------------------------------------------
(* parse_month_range                                                       *)

FirstYear == 2024

YearSpan == 1

MaxListLen == 2

\* datetime.MAXYEAR
MAXYEAR == 9999

\* sep in s
HasChar(sep, s) == \E k \in 1..Len(s) : s[k] = sep

\* The position of the first sep in s; s has one.
FirstAt(sep, s) == CHOOSE k \in 1..Len(s) : s[k] = sep /\ \A j \in 1..(k - 1) : s[j] # sep

\* str.split(sep)
RECURSIVE Split(_, _)
Split(s, sep) ==
    IF ~HasChar(sep, s) THEN <<s>>
    ELSE <<SubSeq(s, 1, FirstAt(sep, s) - 1)>> \o Split(SubSeq(s, FirstAt(sep, s) + 1, Len(s)), sep)

\* The pattern without its end anchor, ^\d{4}-\d{2}: a prefix match.
MonthPatternMatchUnanchored(s) ==
    /\ Len(s) >= 7
    /\ AllDigits(SubSeq(s, 1, 4))
    /\ s[5] = "-"
    /\ AllDigits(SubSeq(s, 6, 7))

\* month_pattern.match(s) for ^\d{4}-\d{2}$
MonthPatternMatch(s) ==
    /\ Len(s) = 7
    /\ AllDigits(SubSeq(s, 1, 4))
    /\ s[5] = "-"
    /\ AllDigits(SubSeq(s, 6, 7))

\* datetime.strptime(s + "-01", "%Y-%m-%d") for s that matches the pattern:
\* <<date>>, or <<>> for a ValueError.
StrptimeFirstOfMonth(s) ==
    IF NumVal(SubSeq(s, 1, 4)) >= 1 /\ StrptimeMonthPart(SubSeq(s, 6, 7))
    THEN <<[year |-> NumVal(SubSeq(s, 1, 4)), month |-> NumVal(SubSeq(s, 6, 7))]>>
    ELSE <<>>

\* d1 > d2 for two dates on the first of a month
DateAfter(d1, d2) == d1.year > d2.year \/ (d1.year = d2.year /\ d1.month > d2.month)

\* current.strftime("%Y-%m"), for years of four digits
StrftimeMonth(d) == MonthText(d.year, d.month)

NoDate == [year |-> 0, month |-> 0]

\* What parse_month_range does up to its loop: it raises, returns a list, or
\* enters the loop of the range form.
ParseEntry(input) ==
    IF input = <<>> \/ Strip(input) = <<>>
    THEN [kind |-> "raise", months |-> <<>>, current |-> NoDate, end_date |-> NoDate]
    ELSE IF HasChar(":", input)
    THEN LET parts == Split(input, ":")
         IN IF Len(parts) # 2
            THEN [kind |-> "raise", months |-> <<>>, current |-> NoDate, end_date |-> NoDate]
            ELSE LET start_str == Strip(parts[1])
                     end_str == Strip(parts[2])
                 IN IF ~MonthPatternMatch(start_str) \/ ~MonthPatternMatch(end_str)
                    THEN [kind |-> "raise", months |-> <<>>, current |-> NoDate,
                          end_date |-> NoDate]
                    ELSE IF StrptimeFirstOfMonth(start_str) = <<>>
                            \/ StrptimeFirstOfMonth(end_str) = <<>>
                    THEN [kind |-> "raise", months |-> <<>>, current |-> NoDate,
                          end_date |-> NoDate]
                    ELSE IF DateAfter(StrptimeFirstOfMonth(start_str)[1],
                                      StrptimeFirstOfMonth(end_str)[1])
                    THEN [kind |-> "raise", months |-> <<>>, current |-> NoDate,
                          end_date |-> NoDate]
                    ELSE [kind |-> "loop", months |-> <<>>,
                          current |-> StrptimeFirstOfMonth(start_str)[1],
                          end_date |-> StrptimeFirstOfMonth(end_str)[1]]
    ELSE IF HasChar(",", input)
    THEN LET list == [k \in 1..Len(Split(input, ",")) |-> Strip(Split(input, ",")[k])]
         IN IF \E k \in 1..Len(list) : ~MonthPatternMatch(list[k])
            THEN [kind |-> "raise", months |-> <<>>, current |-> NoDate, end_date |-> NoDate]
            ELSE [kind |-> "return", months |-> list, current |-> NoDate, end_date |-> NoDate]
    ELSE IF ~MonthPatternMatch(Strip(input))
    THEN [kind |-> "raise", months |-> <<>>, current |-> NoDate, end_date |-> NoDate]
    ELSE [kind |-> "return", months |-> <<Strip(input)>>, current |-> NoDate,
          end_date |-> NoDate]

\* ---- inputs ----

Years == FirstYear..(FirstYear + YearSpan)

\* Components with the shape YYYY-MM, month numbers 00..13.
ShapedComponents == { MonthText(y, m) : y \in Years, m \in 0..13 }

\* Components at the last year datetime can hold.
LastYearComponents == { MonthText(MAXYEAR, 11), MonthText(MAXYEAR, 12) }

\* "2024-8", and " 2024-11 " with blanks around it.
OddComponents ==
    { <<"2", "0", "2", "4", "-", "8">>,
      <<" ">> \o MonthText(FirstYear, 11) \o <<" ">> }

Components == ShapedComponents \cup LastYearComponents \cup OddComponents

RECURSIVE JoinWith(_, _)
JoinWith(parts, sep) ==
    IF Len(parts) = 1 THEN parts[1]
    ELSE parts[1] \o <<sep>> \o JoinWith(Tail(parts), sep)

SingleInputs == Components \cup { <<>>, <<" ">> }

\* Ranges; a range from the modelled years to MAXYEAR is left out (its loop
\* has tens of thousands of iterations).
RangeInputs ==
    { JoinWith(<<a, b>>, ":") : a \in ShapedComponents \cup OddComponents,
                                  b \in ShapedComponents \cup OddComponents }
    \cup { JoinWith(<<a, b>>, ":") : a \in LastYearComponents, b \in Components }

\* Components of the comma lists: a month, a month with blanks around it, the
\* month numbers 00 and 13, and a text without the shape.
ListComponents ==
    { MonthText(FirstYear, 8), MonthText(FirstYear, 0), MonthText(FirstYear + 1, 13) }
    \cup OddComponents

ListInputs ==
    UNION { { JoinWith(l, ",") : l \in [1..n -> ListComponents] } : n \in 2..MaxListLen }

\* More than one ':' and ':' mixed with ','.
OtherInputs ==
    LET a == MonthText(FirstYear, 11)
        b == MonthText(FirstYear, 12)
    IN { JoinWith(<<a, b, b>>, ":"), JoinWith(<<a, b>>, ":") \o <<",">> \o b,
         a \o <<",">> \o JoinWith(<<a, b>>, ":") }

MonthInputs == SingleInputs \cup RangeInputs \cup ListInputs \cup OtherInputs

InitMonths ==
    /\ month_input \in MonthInputs
    /\ months = <<>>
    /\ current = NoDate
    /\ end_date = NoDate
    /\ mpc = "start"
    /\ UploadIdle
    /\ XformIdle
    /\ FetchIdle
    /\ MainIdle

\* Lines 301-325 and 337-349: everything but the loop of the range form.
ParseMonthRange ==
    /\ mpc = "start"
    /\ LET e == ParseEntry(month_input)
       IN /\ months' = e.months
          /\ current' = e.current
          /\ end_date' = e.end_date
          /\ mpc' = CASE e.kind = "raise" -> "raised"
                      [] e.kind = "return" -> "returned"
                      [] OTHER -> "loop"
    /\ UNCHANGED month_input
    /\ UNCHANGED <<uploadVars, xformVars, fetchVars, mainVars>>

\* Lines 329-335: one iteration of the while loop.  replace(year=...) raises
\* ValueError for a year above MAXYEAR; the list built so far is lost.
RangeStep ==
    /\ mpc = "loop"
    /\ ~DateAfter(current, end_date)
    /\ IF current.month = 12
       THEN IF current.year + 1 > MAXYEAR
            THEN /\ mpc' = "raised"
                 /\ months' = <<>>
                 /\ current' = current
            ELSE /\ mpc' = "loop"
                 /\ months' = Append(months, StrftimeMonth(current))
                 /\ current' = [year |-> current.year + 1, month |-> 1]
       ELSE /\ mpc' = "loop"
            /\ months' = Append(months, StrftimeMonth(current))
            /\ current' = [year |-> current.year, month |-> current.month + 1]
    /\ UNCHANGED <<month_input, end_date>>
    /\ UNCHANGED <<uploadVars, xformVars, fetchVars, mainVars>>

\* Line 336: the loop ended, the list is returned.
RangeReturn ==
    /\ mpc = "loop"
    /\ DateAfter(current, end_date)
    /\ mpc' = "returned"
    /\ UNCHANGED <<month_input, months, current, end_date>>
    /\ UNCHANGED <<uploadVars, xformVars, fetchVars, mainVars>>

NextMonths == ParseMonthRange \/ RangeStep \/ RangeReturn

SpecMonths == InitMonths /\ [][NextMonths]_vars

-----------------------------------------------------------------------------
(* Properties of parse_month_range                                         *)

\* A text YYYY-MM whose MM is a calendar month.
IsCalendarMonth(s) ==
    /\ Len(s) = 7
    /\ AllDigits(SubSeq(s, 1, 4))
    /\ s[5] = "-"
    /\ AllDigits(SubSeq(s, 6, 7))
    /\ NumVal(SubSeq(s, 6, 7)) >= 1
    /\ NumVal(SubSeq(s, 6, 7)) <= 12

\* C9: parse_month_range fails for every input with a component that is no
\* calendar month: every text of a returned list is YYYY-MM with MM in 01..12.
C9_ReturnedMonthsAreCalendarMonths ==
    mpc = "returned" => \A k \in 1..Len(months) : IsCalendarMonth(months[k])

\* The months from A to B, both [year, month]: entry k is k - 1 months after A.
MonthsBetween(a, b) ==
    [k \in 1..(12 * (b.year - a.year) + (b.month - a.month) + 1) |->
        MonthText(a.year + ((a.month - 1 + (k - 1)) \div 12),
                  ((a.month - 1 + (k - 1)) % 12) + 1)]

\* The input is A:B with A and B calendar months (blanks around them aside)
\* and A not after B.
IsValidRange(input) ==
    /\ Len(Split(input, ":")) = 2
    /\ IsCalendarMonth(Strip(Split(input, ":")[1]))
    /\ IsCalendarMonth(Strip(Split(input, ":")[2]))
    /\ NumVal(SubSeq(Strip(Split(input, ":")[1]), 1, 4)) >= 1
    /\ ~DateAfter(StrptimeFirstOfMonth(Strip(Split(input, ":")[1]))[1],
                  StrptimeFirstOfMonth(Strip(Split(input, ":")[2]))[1])

RangeStart(input) ==
    [year |-> NumVal(SubSeq(Strip(Split(input, ":")[1]), 1, 4)),
     month |-> NumVal(SubSeq(Strip(Split(input, ":")[1]), 6, 7))]

RangeEnd(input) ==
    [year |-> NumVal(SubSeq(Strip(Split(input, ":")[2]), 1, 4)),
     month |-> NumVal(SubSeq(Strip(Split(input, ":")[2]), 6, 7))]

\* C10: for every valid range A:B with A not after B the parser does not
\* fail, and what it returns is the list of the consecutive months from A to
\* B: first A, last B, 12*(yB-yA)+(mB-mA)+1 entries.
C10_RangeIsInclusiveMonthList ==
    IsValidRange(month_input) =>
        /\ mpc # "raised"
        /\ mpc = "returned" => months = MonthsBetween(RangeStart(month_input), RangeEnd(month_input))

\* The same for ranges that do not end in December of MAXYEAR; this part of
\* C10 holds.
C10_RangeBeforeLastMonth ==
    (IsValidRange(month_input) /\ RangeEnd(month_input) # [year |-> MAXYEAR, month |-> 12]) =>
        /\ mpc # "raised"
        /\ mpc = "returned" => months = MonthsBetween(RangeStart(month_input), RangeEnd(month_input))

\* A range across a year boundary came back whole.
C10_RangeReturned ==
    /\ mpc = "returned"
    /\ month_input = JoinWith(<<MonthText(FirstYear, 11), MonthText(FirstYear + 1, 2)>>, ":")
    /\ Len(months) = 4

\* The number of positions of s that hold c.
CountChar(c, s) == Cardinality({ k \in 1..Len(s) : s[k] = c })

\* Four digits, a hyphen, two digits.
MonthShaped(s) ==
    /\ Len(s) = 7
    /\ \A k \in {1, 2, 3, 4, 6, 7} : IsDigit(s[k])
    /\ s[5] = "-"

\* The pieces of an input between its separators, blanks around them removed:
\* the pieces between ':' when it has one, else those between ','.
PiecesOf(input) ==
    LET raw == IF CountChar(":", input) > 0 THEN Split(input, ":") ELSE Split(input, ",")
    IN [k \in 1..Len(raw) |-> Strip(raw[k])]

\* The three forms of the grammar: one month, a range of two months, a comma
\* list of months.
IsGrammarForm(input) ==
    /\ ~(CountChar(":", input) > 0 /\ CountChar(",", input) > 0)
    /\ CountChar(":", input) <= 1
    /\ \A k \in 1..Len(PiecesOf(input)) : MonthShaped(PiecesOf(input)[k])

\* A range of two shaped months whose start is after its end, compared as
\* (year, month) pairs.
StartAfterEnd(input) ==
    /\ CountChar(":", input) = 1
    /\ CountChar(",", input) = 0
    /\ \A k \in 1..2 : MonthShaped(PiecesOf(input)[k])
    /\ LET a == PiecesOf(input)[1]
           b == PiecesOf(input)[2]
       IN \/ NumVal(SubSeq(a, 1, 4)) > NumVal(SubSeq(b, 1, 4))
          \/ /\ NumVal(SubSeq(a, 1, 4)) = NumVal(SubSeq(b, 1, 4))
             /\ NumVal(SubSeq(a, 6, 7)) > NumVal(SubSeq(b, 6, 7))

\* The inputs that must be rejected: empty or blank, a piece without the
\* shape, more than one ':', ':' mixed with ',', start after end.
IsRejectedInput(input) ==
    \/ \A k \in 1..Len(input) : input[k] = " "
    \/ ~IsGrammarForm(input)
    \/ StartAfterEnd(input)

\* C11: parse_month_range returns a list only for an input of one of the
\* three grammar forms; for an empty or blank input, a component without the
\* shape YYYY-MM, more than one ':', a start after the end, or ':' mixed with
\* ',' it raises ValueError and returns nothing.
C11_OnlyGrammarFormsReturn ==
    /\ mpc = "returned" => IsGrammarForm(month_input)
    /\ IsRejectedInput(month_input) => (mpc \in {"start", "raised"} /\ months = <<>>)

\* A range followed by a comma and a month was rejected.
C11_Witness ==
    /\ mpc = "raised"
    /\ month_input = JoinWith(<<MonthText(FirstYear, 11), MonthText(FirstYear, 12)>>, ":")
                        \o <<",">> \o MonthText(FirstYear, 12)

-----------------------------------------------------------------------------
(* main (src/src/oci_anycost_adaptor.py)                                   *)

\* The loop of the range form, run to its end: <<list>>, or <<>> when
\* replace(year=...) raises.
RECURSIVE RangeLoop(_, _, _)
RangeLoop(cur, last, acc) ==
    IF DateAfter(cur, last) THEN <<acc>>
    ELSE IF cur.month = 12
    THEN IF cur.year + 1 > MAXYEAR THEN <<>>
         ELSE RangeLoop([year |-> cur.year + 1, month |-> 1], last,
                        Append(acc, StrftimeMonth(cur)))
    ELSE RangeLoop([year |-> cur.year, month |-> cur.month + 1], last,
                   Append(acc, StrftimeMonth(cur)))

\* parse_month_range(input) as one call: <<list>>, or <<>> for a ValueError.
ParseMonthRangeCall(input) ==
    LET e == ParseEntry(input)
    IN CASE e.kind = "raise" -> <<>>
         [] e.kind = "return" -> <<e.months>>
         [] OTHER -> RangeLoop(e.current, e.end_date, <<>>)

\* int(s): blanks around the digits are accepted.
IntOk(s) == Strip(s) # <<>> /\ AllDigits(Strip(s))

\* year, month = map(int, month_str.split('-')) does not raise.
YearMonthUnpackOk(month_str) ==
    /\ Len(Split(month_str, "-")) = 2
    /\ \A k \in 1..2 : IntOk(Split(month_str, "-")[k])

\* datetime(year, month, 1) of fetch_oci_monthly_usage does not raise.
MonthStartOk(month_str) ==
    LET year == NumVal(Strip(Split(month_str, "-")[1]))
        mon == NumVal(Strip(Split(month_str, "-")[2]))
    IN year >= 1 /\ year <= MAXYEAR /\ mon >= 1 /\ mon <= 12

\* Values given to --month or --months: a month, a month with a one-digit
\* month number, a month number 13, a comma list, a range, a range mixed with
\* a comma, and the empty text.
ArgValues ==
    { MonthText(FirstYear, 8),
      <<"2", "0", "2", "4", "-", "8">>,
      MonthText(FirstYear, 13),
      JoinWith(<<MonthText(FirstYear, 8), MonthText(FirstYear, 9)>>, ","),
      JoinWith(<<MonthText(FirstYear, 11), MonthText(FirstYear, 12)>>, ":"),
      JoinWith(<<MonthText(FirstYear, 11), MonthText(FirstYear, 12)>>, ":")
          \o <<",">> \o MonthText(FirstYear, 12),
      <<>> }

\* The mutually exclusive group of the parser: one of --month, --months,
\* --test-connection.
ArgSets ==
    [flag : {"month", "months"}, value : ArgValues, no_upload : BOOLEAN, dry_run : BOOLEAN,
     operation : Operations]
    \cup [flag : {"test_connection"}, value : {<<>>}, no_upload : {FALSE}, dry_run : {FALSE},
          operation : {"replace_drop"}]

Environs == SUBSET {"CLOUDZERO_API_KEY", "CLOUDZERO_CONNECTION_ID"}

\* What fetch_and_process_oci_data can do for a month whose start date exists:
\* the fetch raises, it gives no items, it gives items that are transformed,
\* or the transform of the items raises.
FetchOutcomes == {"fetch_error", "no_items", "rows", "transform_error"}

InitMain ==
    /\ args \in ArgSets
    /\ environ \in Environs
    /\ mainpc = "start"
    /\ months_to_process = <<>>
    /\ month_index = 0
    /\ all_cbf_rows = <<>>
    /\ trace = <<>>
    /\ upload_result = "none"
    /\ month_outcomes = <<>>
    /\ upload_call = NoCall
    /\ exit_status = -1
    /\ UploadIdle
    /\ XformIdle
    /\ MonthIdle
    /\ FetchIdle

Exit(status) ==
    /\ mainpc' = "exited"
    /\ exit_status' = status

\* Lines 239-246: --test-connection tests the connection and exits.
TestConnectionOnly ==
    /\ mainpc = "start"
    /\ args.flag = "test_connection"
    /\ trace' = Append(trace, "test_oci_connection")
    /\ \E connected \in BOOLEAN : Exit(IF connected THEN 0 ELSE 1)
    /\ UNCHANGED <<args, environ, months_to_process, month_index, all_cbf_rows, upload_result,
                   month_outcomes, upload_call>>
    /\ UNCHANGED <<uploadVars, xformVars, monthVars, fetchVars>>

\* Lines 248-256: the connection is tested before anything else; the run
\* exits with 1 when the test fails.
VerifyConnection ==
    /\ mainpc = "start"
    /\ args.flag # "test_connection"
    /\ trace' = Append(trace, "test_oci_connection")
    /\ \E connected \in BOOLEAN :
          IF connected
          THEN mainpc' = "months" /\ exit_status' = exit_status
          ELSE Exit(1)
    /\ UNCHANGED <<args, environ, months_to_process, month_index, all_cbf_rows, upload_result,
                   month_outcomes, upload_call>>
    /\ UNCHANGED <<uploadVars, xformVars, monthVars, fetchVars>>

\* Lines 259-262: --month is taken as it is; --months goes through
\* parse_month_range, whose ValueError nothing catches.
DetermineMonths ==
    /\ mainpc = "months"
    /\ IF args.flag = "month"
       THEN /\ months_to_process' = <<args.value>>
            /\ mainpc' = "process"
            /\ month_index' = 1
            /\ exit_status' = exit_status
       ELSE IF ParseMonthRangeCall(args.value) = <<>>
       THEN /\ Exit(1)
            /\ UNCHANGED <<months_to_process, month_index>>
       ELSE /\ months_to_process' = ParseMonthRangeCall(args.value)[1]
            /\ mainpc' = "process"
            /\ month_index' = 1
            /\ exit_status' = exit_status
    /\ UNCHANGED <<args, environ, all_cbf_rows, trace, upload_result, month_outcomes,
                   upload_call>>
    /\ UNCHANGED <<uploadVars, xformVars, monthVars, fetchVars>>

\* A loop without the try of lines 166-172: what fetch_and_process_oci_data
\* raises ends the run through main's handler.
ProcessMonthWithoutTry ==
    /\ mainpc = "process"
    /\ month_index <= Len(months_to_process)
    /\ LET month_str == months_to_process[month_index]
       IN IF ~YearMonthUnpackOk(month_str)
          THEN /\ Exit(1)
               /\ UNCHANGED <<month_index, all_cbf_rows, trace, month_outcomes>>
          ELSE IF ~MonthStartOk(month_str)
          THEN /\ Exit(1)
               /\ month_outcomes' = Append(month_outcomes, "date_error")
               /\ UNCHANGED <<month_index, all_cbf_rows, trace>>
          ELSE \E outcome \in FetchOutcomes :
                  /\ month_outcomes' = Append(month_outcomes, outcome)
                  /\ trace' = trace \o
                        CASE outcome \in {"fetch_error", "no_items"} -> <<"fetch">>
                          [] OTHER -> <<"fetch", "save_raw", "transform">>
                  /\ all_cbf_rows' = IF outcome = "rows"
                                     THEN Append(all_cbf_rows, month_str)
                                     ELSE all_cbf_rows
                  /\ IF outcome \in {"fetch_error", "transform_error"}
                     THEN Exit(1) /\ month_index' = month_index
                     ELSE /\ mainpc' = "process"
                          /\ exit_status' = exit_status
                          /\ month_index' = month_index + 1
    /\ UNCHANGED <<args, environ, months_to_process, upload_result, upload_call>>
    /\ UNCHANGED <<uploadVars, xformVars, monthVars, fetchVars>>

\* process_multiple_months, lines 163-172, one month: the unpacking of the
\* month text is outside the try and ends the run through main's handler
\* (line 327); everything fetch_and_process_oci_data raises is caught and the
\* loop goes on.
ProcessMonth ==
    /\ mainpc = "process"
    /\ month_index <= Len(months_to_process)
    /\ LET month_str == months_to_process[month_index]
       IN IF ~YearMonthUnpackOk(month_str)
          THEN /\ Exit(1)
               /\ UNCHANGED <<month_index, all_cbf_rows, trace, month_outcomes>>
          ELSE /\ mainpc' = "process"
               /\ exit_status' = exit_status
               /\ month_index' = month_index + 1
               /\ IF ~MonthStartOk(month_str)
                  THEN /\ month_outcomes' = Append(month_outcomes, "date_error")
                       /\ UNCHANGED <<all_cbf_rows, trace>>
                  ELSE \E outcome \in FetchOutcomes :
                          /\ month_outcomes' = Append(month_outcomes, outcome)
                          /\ trace' = trace \o
                                CASE outcome \in {"fetch_error", "no_items"} -> <<"fetch">>
                                  [] OTHER -> <<"fetch", "save_raw", "transform">>
                          /\ all_cbf_rows' = IF outcome = "rows"
                                             THEN Append(all_cbf_rows, month_str)
                                             ELSE all_cbf_rows
    /\ UNCHANGED <<args, environ, months_to_process, upload_result, upload_call>>
    /\ UNCHANGED <<uploadVars, xformVars, monthVars, fetchVars>>

\* Lines 270-272: nothing was gathered.
NoData ==
    /\ mainpc = "process"
    /\ month_index > Len(months_to_process)
    /\ all_cbf_rows = <<>>
    /\ Exit(0)
    /\ UNCHANGED <<args, environ, months_to_process, month_index, all_cbf_rows, trace,
                   upload_result, month_outcomes, upload_call>>
    /\ UNCHANGED <<uploadVars, xformVars, monthVars, fetchVars>>

\* Lines 274-296: the rows are written to the output file.  With --no-upload
\* main ends here; an error of the file system ends the run through main's
\* handler (line 327).
WriteOutput ==
    /\ mainpc = "process"
    /\ month_index > Len(months_to_process)
    /\ all_cbf_rows # <<>>
    /\ trace' = Append(trace, "write_output")
    /\ \E written \in BOOLEAN :
          IF ~written THEN Exit(1)
          ELSE IF args.no_upload THEN Exit(0)
          ELSE mainpc' = "upload" /\ exit_status' = exit_status
    /\ UNCHANGED <<args, environ, months_to_process, month_index, all_cbf_rows, upload_result,
                   month_outcomes, upload_call>>
    /\ UNCHANGED <<uploadVars, xformVars, monthVars, fetchVars>>

\* Line 302 with the last month in place of the first
billing_month_last(months_list) == months_list[Len(months_list)]

\* Line 302: months[0], whether one month is processed or several
billing_month(months_list) == months_list[1]

\* What upload_cbf_to_cloudzero does before it sends: CloudZeroClient()
\* raises without the two settings (cloudzero.py:24-27), upload_billing_data
\* raises for a month strptime rejects (cloudzero.py:96-99), and a dry run
\* returns without sending.
UploadWithoutSend ==
    IF ~({"CLOUDZERO_API_KEY", "CLOUDZERO_CONNECTION_ID"} \subseteq environ) THEN "error"
    ELSE IF ~StrptimeYmOk(billing_month(months_to_process)) THEN "error"
    ELSE IF args.dry_run THEN "dry_run"
    ELSE "send"

\* Lines 299-322: the upload, with the first month as the billing month.
\* Whatever it returns or raises is printed; main then ends.
Upload ==
    /\ mainpc = "upload"
    /\ upload_call' = [called |-> TRUE,
                       cbf_rows |-> all_cbf_rows,
                       month |-> billing_month(months_to_process),
                       operation |-> args.operation,
                       dry_run |-> args.dry_run]
    /\ IF UploadWithoutSend # "send"
       THEN /\ upload_result' = UploadWithoutSend
            /\ trace' = Append(trace, "CloudZeroClient")
       ELSE /\ upload_result' \in {"success", "failed"}
            /\ trace' = trace \o <<"CloudZeroClient", "upload_post">>
    /\ Exit(0)
    /\ UNCHANGED <<args, environ, months_to_process, month_index, all_cbf_rows,
                   month_outcomes>>
    /\ UNCHANGED <<uploadVars, xformVars, monthVars, fetchVars>>

NextMain ==
    \/ TestConnectionOnly
    \/ VerifyConnection
    \/ DetermineMonths
    \/ ProcessMonth
    \/ NoData
    \/ WriteOutput
    \/ Upload

SpecMain == InitMain /\ [][NextMain]_vars

\* The --month or --months value is malformed: --month without the shape
\* YYYY-MM, --months outside the grammar.
MalformedMonthArgument ==
    \/ args.flag = "month" /\ ~MonthShaped(args.value)
    \/ args.flag = "months" /\ IsRejectedInput(args.value)

CloudZeroSettingMissing ==
    /\ args.flag \in {"month", "months"}
    /\ ~args.no_upload
    /\ ~({"CLOUDZERO_API_KEY", "CLOUDZERO_CONNECTION_ID"} \subseteq environ)

InTrace(what) == \E k \in 1..Len(trace) : trace[k] = what

\* C12: with a malformed --month/--months value, or with CLOUDZERO_API_KEY or
\* CLOUDZERO_CONNECTION_ID missing, the run makes no network call (the OCI
\* connection test, a usage fetch) and does no transform work.
C12_FailsBeforeAnyNetworkCall ==
    (MalformedMonthArgument \/ CloudZeroSettingMissing) =>
        /\ ~InTrace("test_oci_connection")
        /\ ~InTrace("fetch")
        /\ ~InTrace("transform")

-----------------------------------------------------------------------------
(* fetch_oci_usage_data (src/src/oci_usage.py): pages and the retry loop   *)

\* The most pages the service hands out.
MaxPages == 2

\* max_retries = 3, with an off-by-one variant.
max_retries_off_by_one == 3 + 1

max_retries == 3

\* e.status of a ServiceError: rate limit, server error, and two others.
ErrorStatuses == {429, 500, 401, 404}

RECURSIVE Pow2(_)
Pow2(n) == IF n = 0 THEN 1 ELSE 2 * Pow2(n - 1)

InitFetch ==
    /\ fpc = "request"
    /\ page_num = 1
    /\ attempt = 0
    /\ api_calls = <<>>
    /\ sleeps = <<>>
    /\ all_items = <<>>
    /\ UploadIdle
    /\ XformIdle
    /\ MonthIdle
    /\ MainIdle

\* A call and its answer; next_page tells whether the response carried
\* opc_next_page.
ApiCall(status) ==
    [page |-> page_num, attempt |-> attempt, status |-> status, next_page |-> FALSE]

\* The service hands out a next-page token for every page but the last.
NextPageTokens == IF page_num < MaxPages THEN BOOLEAN ELSE {FALSE}

\* The page loop without a retry loop of its own: attempt is not set back.
RequestSucceedsKeepingAttempt ==
    /\ fpc = "request"
    /\ all_items' = Append(all_items, page_num)
    /\ sleeps' = IF page_num > 1
                 THEN Append(sleeps, [page |-> page_num, seconds |-> 1, status |-> 200])
                 ELSE sleeps
    /\ \E opc_next_page \in NextPageTokens :
          /\ api_calls' = Append(api_calls, [ApiCall(200) EXCEPT !.next_page = opc_next_page])
          /\ IF opc_next_page
             THEN fpc' = "request" /\ page_num' = page_num + 1 /\ attempt' = attempt
             ELSE fpc' = "returned" /\ UNCHANGED <<page_num, attempt>>
    /\ UNCHANGED <<uploadVars, xformVars, monthVars, mainVars>>

\* Lines 95-100 and 124-142: the call returns a page; the retry loop ends,
\* the items are kept, and the next page is asked for when there is one.
RequestSucceeds ==
    /\ fpc = "request"
    /\ all_items' = Append(all_items, page_num)
    /\ sleeps' = IF page_num > 1
                 THEN Append(sleeps, [page |-> page_num, seconds |-> 1, status |-> 200])
                 ELSE sleeps
    /\ \E opc_next_page \in NextPageTokens :
          /\ api_calls' = Append(api_calls, [ApiCall(200) EXCEPT !.next_page = opc_next_page])
          /\ IF opc_next_page
             THEN fpc' = "request" /\ page_num' = page_num + 1 /\ attempt' = 0
             ELSE fpc' = "returned" /\ UNCHANGED <<page_num, attempt>>
    /\ UNCHANGED <<uploadVars, xformVars, monthVars, mainVars>>

\* The wait before the next attempt is slept and the for loop goes on.
SleepAndRetry(status, wait_time) ==
    /\ sleeps' = Append(sleeps, [page |-> page_num, seconds |-> wait_time, status |-> status])
    /\ attempt' = attempt + 1
    /\ fpc' = "request"

\* The ServiceError leaves fetch_oci_usage_data (re-raised at line 157).
Propagate ==
    /\ fpc' = "raised"
    /\ UNCHANGED <<attempt, sleeps>>

\* The 500 branch with the wait of the 429 branch.
ServerErrorExponential ==
    /\ fpc = "request"
    /\ api_calls' = Append(api_calls, ApiCall(500))
    /\ IF attempt < max_retries - 1
       THEN SleepAndRetry(500, Pow2(attempt) * 5)
       ELSE Propagate
    /\ UNCHANGED <<page_num, all_items>>
    /\ UNCHANGED <<uploadVars, xformVars, monthVars, mainVars>>

\* Lines 103-111: status 429.
RateLimited ==
    /\ fpc = "request"
    /\ api_calls' = Append(api_calls, ApiCall(429))
    /\ IF attempt < max_retries - 1
       THEN SleepAndRetry(429, Pow2(attempt) * 5)
       ELSE Propagate
    /\ UNCHANGED <<page_num, all_items>>
    /\ UNCHANGED <<uploadVars, xformVars, monthVars, mainVars>>

\* Lines 112-119: status 500.
ServerError ==
    /\ fpc = "request"
    /\ api_calls' = Append(api_calls, ApiCall(500))
    /\ IF attempt < max_retries - 1
       THEN SleepAndRetry(500, 5)
       ELSE Propagate
    /\ UNCHANGED <<page_num, all_items>>
    /\ UNCHANGED <<uploadVars, xformVars, monthVars, mainVars>>

\* Lines 120-122: every other status is raised at once.
OtherServiceError ==
    /\ fpc = "request"
    /\ \E status \in ErrorStatuses \ {429, 500} :
          api_calls' = Append(api_calls, ApiCall(status))
    /\ Propagate
    /\ UNCHANGED <<page_num, all_items>>
    /\ UNCHANGED <<uploadVars, xformVars, monthVars, mainVars>>

NextFetch == RequestSucceeds \/ RateLimited \/ ServerError \/ OtherServiceError

SpecFetch == InitFetch /\ [][NextFetch]_vars

\* Every call returns or raises, so the function always takes its next step.
SpecFetchFair == SpecFetch /\ WF_vars(NextFetch)

\* The positions in api_calls of the calls made for page p.
CallsForPage(p) == { k \in 1..Len(api_calls) : api_calls[k].page = p }

\* The waits slept between the attempts for page p, in order.
RetryWaits(p) ==
    LET Pick(k) == sleeps[k].page = p /\ sleeps[k].status # 200
        picked == SelectSeq([k \in 1..Len(sleeps) |-> k], Pick)
    IN [k \in 1..Len(picked) |-> sleeps[picked[k]].seconds]

\* Every call made for page p got the given status.
AllCallsGot(p, status) == \A k \in CallsForPage(p) : api_calls[k].status = status

Pages == 1..(MaxPages + 1)

\* C13: the retry loop is bounded.  At most 3 calls are made for a page, no
\* call for a page follows a successful call for it, a third consecutive
\* 429 for a page leaves the function as an error, and the function always
\* ends: it returns or raises.
C13_RetryLoopIsBounded ==
    /\ [](/\ \A p \in Pages : Cardinality(CallsForPage(p)) <= 3
          /\ \A j, k \in 1..Len(api_calls) :
                (j < k /\ api_calls[j].status = 200) => api_calls[k].page # api_calls[j].page
          /\ \A p \in Pages :
                (Cardinality(CallsForPage(p)) = 3 /\ AllCallsGot(p, 429)) => fpc = "raised")
    /\ <>(fpc \in {"returned", "raised"})

\* Three calls for the second page were all answered with 429 and the error
\* left the function.
C13_Witness ==
    /\ fpc = "raised"
    /\ page_num = 2
    /\ Cardinality(CallsForPage(2)) = 3
    /\ AllCallsGot(2, 429)

\* C14: a page request that keeps being answered with 429 is retried after
\* waits of 5 s, then 10 s, then 20 s, before the fetch fails outward.
C14_RateLimitWaits ==
    \A p \in Pages :
        (fpc = "raised" /\ page_num = p /\ AllCallsGot(p, 429)) => RetryWaits(p) = <<5, 10, 20>>

\* C15 as stated: a 500 is retried like a 429, with waits that grow
\* exponentially (each the double of the one before), for at most 3 attempts,
\* and is then propagated; any other status is propagated when it first occurs.
C15_ServerErrorBacksOffExponentially ==
    /\ \A p \in Pages : Cardinality(CallsForPage(p)) <= 3
    /\ \A p \in Pages :
          (Cardinality(CallsForPage(p)) = 3 /\ AllCallsGot(p, 500)) => fpc = "raised"
    /\ \A p \in Pages :
          AllCallsGot(p, 500) =>
              \A k \in 2..Len(RetryWaits(p)) : RetryWaits(p)[k] = 2 * RetryWaits(p)[k - 1]
    /\ \A k \in 1..Len(api_calls) :
          api_calls[k].status \notin {200, 429, 500} => (k = Len(api_calls) /\ fpc = "raised")

\* C15, amended: a 500 is retried for at most 3 attempts and then propagated,
\* as a 429 is, but the wait after a 500 is always 5 s; any other status is
\* propagated when it first occurs, without a wait.
C15_ServerErrorRetriedWithFixedWait ==
    /\ \A p \in Pages : Cardinality(CallsForPage(p)) <= 3
    /\ \A p \in Pages :
          (Cardinality(CallsForPage(p)) = 3 /\ AllCallsGot(p, 500)) => fpc = "raised"
    /\ \A k \in 1..Len(sleeps) : sleeps[k].status = 500 => sleeps[k].seconds = 5
    /\ \A k \in 1..Len(sleeps) : sleeps[k].status \in {200, 429, 500}
    /\ \A k \in 1..Len(api_calls) :
          api_calls[k].status \notin {200, 429, 500} => (k = Len(api_calls) /\ fpc = "raised")

\* The first page was answered with 500 three times: two waits of 5 s, then
\* the error left the function.
C15_Witness ==
    /\ fpc = "raised"
    /\ Cardinality(CallsForPage(1)) = 3
    /\ AllCallsGot(1, 500)
    /\ RetryWaits(1) = <<5, 5>>

-----------------------------------------------------------------------------
(* Properties of _upload_single_batch                                      *)

\* The results of the sends so far, in order: the per-batch results of a
\* batched upload, the returned dictionary of a single-payload upload.
SendResults ==
    IF batches # <<>> THEN results
    ELSE IF pc = "done" /\ posts # <<>> THEN <<ret>>
    ELSE <<>>

\* C16: _upload_single_batch maps every outcome of a send to a result and
\* raises for none: every 2xx response gives success = true, records_uploaded
\* = the number of rows sent and the response body; a timeout, an HTTP error
\* and any other request error give success = false, records_uploaded = 0 and
\* an error message.
C16_EverySendOutcomeIsAResult ==
    /\ pc # "raised" => Len(SendResults) = Len(send_outcomes)
    /\ \A k \in 1..Len(SendResults) :
          LET r == SendResults[k]
          IN IF send_outcomes[k] \in {"ok", "ok_empty_body", "ok_not_json"}
             THEN /\ r.success
                  /\ r.records_uploaded = Len(posts[k].data)
                  /\ "response" \in DOMAIN r
             ELSE /\ ~r.success
                  /\ r.records_uploaded = 0
                  /\ "error" \in DOMAIN r

-----------------------------------------------------------------------------
(* Properties of the record transforms                                     *)

\* The amount of the record is missing or no number.
AmountUnusable(r) ==
    IF source = "api" THEN r.computed_amount = <<>>
    ELSE ParseFloat(r.computed_amount) = <<>>

\* C17: neither transform raises because of a record with absent, None or
\* unparsable fields: every record that is not skipped gets its row, in
\* order, and a row of a record without a usable amount has the cost "0.0".
C17_BadRecordDoesNotAbort ==
    /\ xpc # "raised"
    /\ xpc = "done" =>
          /\ Len(cbf_out) = Len(Emitted)
          /\ \A k \in 1..Len(cbf_out) :
                AmountUnusable(Emitted[k]) => cbf_out[k].cost = <<"0", ".", "0">>

\* The field holds a text with a character that is no blank.
PresentNonEmpty(v) == v # PyNone /\ v # Absent /\ \E k \in 1..Len(v) : v[k] # " "

\* No upper-case letter and no space.
IsSlug(s) == \A k \in 1..Len(s) : s[k] # " " /\ \A u \in 1..26 : s[k] # UpperChars[u]

\* The number of '-' of the text.
Hyphens(s) == Cardinality({ k \in 1..Len(s) : s[k] = "-" })

\* C18: resource/id of every row is the resource id of the record when that
\* is present and non-empty, else its resource name when that is present and
\* non-empty, else a synthesized id: parts joined with '-', entirely
\* lower-case and free of spaces.
C18_ResourceIdPreference ==
    xpc = "done" =>
        /\ Len(cbf_out) = Len(Emitted)
        /\ \A k \in 1..Len(cbf_out) :
              LET r == Emitted[k]
                  id == cbf_out[k].resource_id
              IN IF PresentNonEmpty(r.resource_id) THEN id = r.resource_id
                 ELSE IF PresentNonEmpty(r.resource_name) THEN id = r.resource_name
                 ELSE IsSlug(id) /\ Hyphens(id) >= 2

\* The text is a rendering YYYY-MM-DDTHH:MM:SS.ffffffZ of the given year,
\* month, day and hour.
IsRenderingOf(s, d) ==
    /\ Len(s) = 27
    /\ NumVal(SubSeq(s, 1, 4)) = d.year
    /\ NumVal(SubSeq(s, 6, 7)) = d.month
    /\ NumVal(SubSeq(s, 9, 10)) = d.day
    /\ NumVal(SubSeq(s, 12, 13)) = d.hour
    /\ <<s[5], s[8], s[11], s[14], s[17], s[20], s[27]>> = <<"-", "-", "T", ":", ":", ".", "Z">>
    /\ \A k \in {15, 16, 18, 19} \cup 21..26 : s[k] = "0"

\* What C19 says of one source value and the text emitted for it.
UsageStartAsSpecified(kind, text, d, out) ==
    /\ out # <<>>
    /\ kind = "datetime" => IsRenderingOf(out, d)
    /\ (kind = "str" /\ \E k \in 1..Len(text) : text[k] = "T") => out = text
    /\ (kind = "none" \/ (kind = "str" /\ text = <<>>)) => IsRenderingOf(out, Now)

\* C19: time/usage_start of every row is the rendering of a structured
\* timestamp, the source string itself when that contains 'T', and the
\* current time when the source value is empty or missing; it is never empty.
C19_UsageStart ==
    xpc = "done" =>
        /\ Len(cbf_out) = Len(Emitted)
        /\ \A k \in 1..Len(cbf_out) :
              LET t == Emitted[k].time_usage_started
                  out == cbf_out[k].usage_start
              IN IF source = "api"
                 THEN UsageStartAsSpecified(t.kind, IF t.kind = "str" THEN t.text ELSE <<>>,
                                            IF t.kind = "datetime" THEN t ELSE Now, out)
                 ELSE UsageStartAsSpecified(IF t \in {PyNone, Absent} THEN "none" ELSE "str",
                                            t, Now, out)

\* The name of the field of a tag key: "tag/" and the key in lower case.
TagFieldName(key) == <<"t", "a", "g", "/">> \o [k \in 1..Len(key) |-> LowerChar(key[k])]

\* The text of a tag value.
TagValueText(v) == IF v.kind = "str" THEN v.text ELSE DecText(v.n)

\* C20 as stated: the row of an API record has as many tag fields as the
\* record has tags, and the value of every tag is the one found under its
\* lower-cased key.
C20_OneFieldPerTag ==
    (xpc = "done" /\ source = "api") =>
        \A k \in 1..Len(records) :
            LET tags == records[k].freeform_tags
                fields == cbf_out[k].tags
            IN /\ Cardinality(DOMAIN fields) = Len(tags)
               /\ \A j \in 1..Len(tags) :
                     /\ TagFieldName(tags[j].key) \in DOMAIN fields
                     /\ fields[TagFieldName(tags[j].key)] = TagValueText(tags[j].value)

\* The last tag of the mapping whose key, lower-cased, is that of tag j.
LastWithKeyOf(tags, j) ==
    CHOOSE m \in j..Len(tags) :
        /\ TagFieldName(tags[m].key) = TagFieldName(tags[j].key)
        /\ \A n \in (m + 1)..Len(tags) : TagFieldName(tags[n].key) # TagFieldName(tags[j].key)

\* C20, amended: the tag fields of the row are the lower-cased keys of the
\* record's tags, one field per distinct lower-cased key, and the value under
\* a key is the text of the last tag with that lower-cased key; tags whose
\* keys differ only in case share one field.
C20_OneFieldPerLowerCasedKey ==
    (xpc = "done" /\ source = "api") =>
        \A k \in 1..Len(records) :
            LET tags == records[k].freeform_tags
                fields == cbf_out[k].tags
            IN /\ DOMAIN fields = { TagFieldName(tags[j].key) : j \in 1..Len(tags) }
               /\ \A j \in 1..Len(tags) :
                     fields[TagFieldName(tags[j].key)]
                        = TagValueText(tags[LastWithKeyOf(tags, j)].value)

\* A record with the tags Env and env came out with the one field tag/env,
\* holding the value of env.
C20_Witness ==
    /\ xpc = "done"
    /\ source = "api"
    /\ \E k \in 1..Len(records) :
          /\ Len(records[k].freeform_tags) = 2
          /\ records[k].freeform_tags[1].key = txt_Env
          /\ records[k].freeform_tags[2].key = txt_env
          /\ DOMAIN cbf_out[k].tags = {<<"t", "a", "g", "/", "e", "n", "v">>}
          /\ cbf_out[k].tags[<<"t", "a", "g", "/", "e", "n", "v">>] = txt_us1

-----------------------------------------------------------------------------
(* write_cbf_csv (src/src/csv_to_cbf.py) and the reading back of its file  *)
(*                                                                         *)
(* A row of the output file is a function from key text to value text.     *)
(* The file is the sequence of its characters, so that quoting, line ends  *)
(* and the header are written and parsed, not assumed.                     *)

MaxCsvRows == 2

key_cost == <<"c", "o", "s", "t", "/", "c", "o", "s", "t">>
key_resource_id == <<"r", "e", "s", "o", "u", "r", "c", "e", "/", "i", "d">>
key_tag_env == <<"t", "a", "g", "/", "e", "n", "v">>

val_quoted == <<"a", ",", "\"", "b">>

\* A row always has its cost; the resource id and the tag are optional, as
\* in transform_csv_to_cbf.
OutputRows ==
    { [key \in {key_cost} \cup opt |->
          IF key = key_cost THEN c
          ELSE IF key = key_resource_id THEN <<"i">>
          ELSE t] :
      c \in { <<"1">>, <<"2">> },
      t \in { <<>>, val_quoted },
      opt \in SUBSET {key_resource_id, key_tag_env} }

OutputRowLists == UNION { [1..n -> OutputRows] : n \in 0..MaxCsvRows }

\* Code point order of the characters of a key
CharOrder == <<"/">> \o DigitChars \o UpperChars \o <<"_">> \o LowerChars

Ord(c) == CHOOSE k \in 1..Len(CharOrder) : CharOrder[k] = c

\* a < b for str
RECURSIVE TextLess(_, _)
TextLess(a, b) ==
    IF b = <<>> THEN FALSE
    ELSE IF a = <<>> THEN TRUE
    ELSE IF Head(a) = Head(b) THEN TextLess(Tail(a), Tail(b))
    ELSE Ord(Head(a)) < Ord(Head(b))

\* sorted(list(S))
RECURSIVE Sorted(_)
Sorted(S) ==
    IF S = {} THEN <<>>
    ELSE LET least == CHOOSE a \in S : \A b \in S \ {a} : TextLess(a, b)
         IN  <<least>> \o Sorted(S \ {least})

\* all_fieldnames after the loop over the rows
all_fieldnames(rows) == UNION { DOMAIN rows[k] : k \in 1..Len(rows) }

fieldnames(rows) == Sorted(all_fieldnames(rows))

\* csv.writer, excel dialect, QUOTE_MINIMAL
NeedsQuote(field) ==
    \E k \in 1..Len(field) : field[k] \in {",", "\"", "\r", "\n"}

RECURSIVE DoubleQuotes(_)
DoubleQuotes(field) ==
    IF field = <<>> THEN <<>>
    ELSE (IF Head(field) = "\"" THEN <<"\"", "\"">> ELSE <<Head(field)>>)
         \o DoubleQuotes(Tail(field))

\* QUOTE_NONE without an escape character
WriteFieldBare(field) == field

WriteField(field) ==
    IF NeedsQuote(field) THEN <<"\"">> \o DoubleQuotes(field) \o <<"\"">>
    ELSE field

RECURSIVE JoinFields(_)
JoinFields(fields) ==
    IF fields = <<>> THEN <<>>
    ELSE IF Len(fields) = 1 THEN WriteField(fields[1])
    ELSE WriteField(fields[1]) \o <<",">> \o JoinFields(Tail(fields))

\* csv.writer.writerow: a lone empty field is written quoted
writerow(fields) ==
    (IF fields = <<<<>>>> THEN <<"\"", "\"">> ELSE JoinFields(fields))
    \o <<"\r", "\n">>

\* DictWriter._dict_to_list: rowdict.get(key, "") for key in fieldnames
dict_to_list(names, row) ==
    [k \in 1..Len(names) |-> IF names[k] \in DOMAIN row THEN row[names[k]] ELSE <<>>]

RECURSIVE writerows(_, _)
writerows(names, rows) ==
    IF rows = <<>> THEN <<>>
    ELSE writerow(dict_to_list(names, Head(rows))) \o writerows(names, Tail(rows))

\* The characters of the file: writeheader(), then writerows(cbf_rows)
write_cbf_csv(rows) ==
    writerow(fieldnames(rows)) \o writerows(fieldnames(rows), rows)

\* csv.reader, excel dialect.  The reader's state machine is followed one
\* field at a time: a field that starts with a quote runs to its closing
\* quote (a quote that is not the first of a doubled pair), whatever stands
\* between, and then, like a field without quotes, to the next comma or line
\* end.
LineEnds == {"\r", "\n"}

QuotesIn(text, a, b) == Cardinality({j \in a..b : text[j] = "\""})

Least(S) == CHOOSE j \in S : \A m \in S : j <= m

\* Where the field that is being read at position k stops: at the next comma
\* or line end, or behind the text.
FieldStop(text, k) ==
    LET stops == {j \in k..Len(text) : text[j] \in LineEnds \cup {","}}
    IN  IF stops = {} THEN Len(text) + 1 ELSE Least(stops)

\* The quote that closes the quoted field opened at position k
ClosingQuote(text, k) ==
    LET closing == {j \in (k + 1)..Len(text) :
                       /\ text[j] = "\""
                       /\ QuotesIn(text, k + 1, j - 1) % 2 = 0
                       /\ (j = Len(text) \/ text[j + 1] # "\"")}
    IN  IF closing = {} THEN Len(text) + 1 ELSE Least(closing)

\* The inside of a quoted field with every doubled quote taken once
Undouble(inner) ==
    LET kept == SelectSeq([j \in 1..Len(inner) |-> j],
                          LAMBDA j : inner[j] # "\"" \/ QuotesIn(inner, 1, j) % 2 = 1)
    IN  [j \in 1..Len(kept) |-> inner[kept[j]]]

\* The records from position k on; row holds the fields of the record that
\* is being read, and is empty at the start of a record.
RECURSIVE ReadFrom(_, _, _, _)
ReadFrom(text, k, row, recs) ==
    IF k > Len(text)
    THEN IF row = <<>> THEN recs ELSE Append(recs, Append(row, <<>>))
    ELSE IF row = <<>> /\ text[k] \in LineEnds
    THEN LET next == IF text[k] = "\r" /\ k < Len(text) /\ text[k + 1] = "\n"
                     THEN k + 2 ELSE k + 1
         IN  ReadFrom(text, next, <<>>, Append(recs, <<>>))
    ELSE
    LET quoted == text[k] = "\""
        close == IF quoted THEN ClosingQuote(text, k) ELSE k
        stop == IF quoted THEN FieldStop(text, close + 1) ELSE FieldStop(text, k)
        field == IF quoted
                 THEN Undouble(SubSeq(text, k + 1, close - 1)) \o SubSeq(text, close + 1, stop - 1)
                 ELSE SubSeq(text, k, stop - 1)
        next == IF stop <= Len(text) /\ text[stop] = "\r"
                   /\ stop < Len(text) /\ text[stop + 1] = "\n"
                THEN stop + 2 ELSE stop + 1
    IN  IF stop > Len(text) THEN Append(recs, Append(row, field))
        ELSE IF text[stop] = "," THEN ReadFrom(text, stop + 1, Append(row, field), recs)
        ELSE ReadFrom(text, next, <<>>, Append(recs, Append(row, field)))

CsvReader(text) == ReadFrom(text, 1, <<>>, <<>>)

\* dict(zip(fieldnames, row)), the fields a short row lacks being None
DictOf(names, row) ==
    [key \in {names[k] : k \in 1..Len(names)} |->
        LET k == CHOOSE j \in 1..Len(names) : names[j] = key
        IN  IF k <= Len(row) THEN row[k] ELSE PyNone]

\* list(csv.DictReader(f)): the first record is the header, blank lines
\* are skipped
DictReader(text) ==
    LET recs == CsvReader(text)
        data == SelectSeq(Tail(recs), LAMBDA r : r # <<>>)
    IN  IF recs = <<>> THEN <<>>
        ELSE [k \in 1..Len(data) |-> DictOf(recs[1], data[k])]

InitOutput ==
    /\ source = "cbf"
    /\ records = <<>>
    /\ cbf_out \in OutputRowLists
    /\ xpc = "done"
    /\ output_file = <<>>
    /\ read_back = <<>>
    /\ UploadIdle
    /\ MonthIdle
    /\ FetchIdle
    /\ MainIdle

WriteCbfCsv ==
    /\ xpc = "done"
    /\ source = "cbf"
    /\ output_file' = write_cbf_csv(cbf_out)
    /\ xpc' = "written"
    /\ UNCHANGED <<source, records, cbf_out, read_back>>
    /\ UNCHANGED <<uploadVars, monthVars, fetchVars, mainVars>>

ReadOutput ==
    /\ xpc = "written"
    /\ read_back' = DictReader(output_file)
    /\ xpc' = "read"
    /\ UNCHANGED <<source, records, cbf_out, output_file>>
    /\ UNCHANGED <<uploadVars, monthVars, fetchVars, mainVars>>

NextOutput == WriteCbfCsv \/ ReadOutput

SpecOutput == InitOutput /\ [][NextOutput]_vars

\* C21: reading the written file back gives, row by row and in order, the
\* key/value pairs of the rows that were written, whatever their key sets.
C21_RoundTrip ==
    xpc = "read" =>
        /\ Len(read_back) = Len(cbf_out)
        /\ \A k \in 1..Len(cbf_out) : read_back[k] = cbf_out[k]

\* C21, as the code has it: the file has as many rows as were written, in
\* order; every row read back carries every key of the header, with the
\* written value under the keys the row had and the empty text under the
\* keys it lacked.
C21_RoundTripUpToMissingKeys ==
    xpc = "read" =>
        /\ Len(read_back) = Len(cbf_out)
        /\ \A k \in 1..Len(cbf_out) :
              /\ DOMAIN read_back[k] = all_fieldnames(cbf_out)
              /\ \A key \in all_fieldnames(cbf_out) :
                    read_back[k][key] =
                        IF key \in DOMAIN cbf_out[k] THEN cbf_out[k][key] ELSE <<>>

\* Two rows of different key sets, one of them with a value that has to be
\* quoted, have been written and read back.
C21_Witness ==
    /\ xpc = "read"
    /\ Len(cbf_out) = 2
    /\ DOMAIN cbf_out[1] # DOMAIN cbf_out[2]
    /\ key_tag_env \in DOMAIN cbf_out[1]
    /\ cbf_out[1][key_tag_env] = val_quoted
    /\ key_resource_id \in DOMAIN cbf_out[2]
    /\ key_resource_id \notin DOMAIN cbf_out[1]

-----------------------------------------------------------------------------
(* Properties of main's upload stage                                       *)

\* C22: a run whose upload stage failed (upload_cbf_to_cloudzero returned
\* success = false, or raised) ends with a non-zero exit status.
C22_FailedUploadExitsNonZero ==
    (mainpc = "exited" /\ upload_result \in {"failed", "error"}) => exit_status # 0

-----------------------------------------------------------------------------
(* The dry run's plan and the real run's requests                          *)

\* The requests a run with dry_run = false sends for these arguments when
\* every send succeeds
RequestsOfFullRun(rows, m, op) ==
    [k \in 1..Len(SplitIntoBatches(rows)) |->
        Request(SplitIntoBatches(rows)[k], m, BatchOperation(k, op))]

BatchedDryRunDone == pc = "done" /\ dry_run /\ batches # <<>>

\* C23: the batches a dry run lists (their number, their rows in order, the
\* operation of each) are the requests the run without dry_run sends for the
\* same arguments when every send succeeds.
C23_DryRunPlansTheRequestsSent ==
    /\ BatchedDryRunDone => prepared = RequestsOfFullRun(cbf_rows, month, operation)
    /\ (BatchedRun /\ pc = "done" /\ ret.success) =>
           posts = RequestsOfFullRun(cbf_rows, month, operation)

\* A dry run has listed two batches with "replace_drop" for the first.
C23_Witness ==
    /\ BatchedDryRunDone
    /\ Len(prepared) >= 2
    /\ operation = "replace_drop"
    /\ prepared[2].operation = "sum"

\* A run without dry_run has sent two batches, both with success.
C23_WitnessFullRun ==
    /\ BatchedRun /\ pc = "done" /\ ret.success
    /\ Len(posts) >= 2
    /\ operation = "replace_drop"

-----------------------------------------------------------------------------
(* CloudZeroClient.upload_billing_data of src/src/cloudzero_client.py      *)
(*                                                                         *)
(* The module differs from src/src/cloudzero.py in the two loops over the  *)
(* batches: lines 129-133 and 145-151 hand every batch the caller's        *)
(* operation.  The planner, the validation, the aggregate and the          *)
(* single-payload path are the same text.                                  *)

\* Lines 128-141: the dry run's listing.
ClientPlanBatchedDryRun ==
    /\ pc = "start"
    /\ cbf_rows # <<>> /\ StrptimeYmOk(month)
    /\ CalculatePayloadSize(month, operation, cbf_rows) > max_size_bytes
    /\ dry_run
    /\ batches' = SplitIntoBatches(cbf_rows)
    /\ ret' = [dry_run |-> TRUE, payload_records |-> Len(cbf_rows),
               batches |-> Len(batches'), status |-> "prepared_batched"]
    /\ prepared' = [k \in 1..Len(batches') |-> Request(batches'[k], month, operation)]
    /\ pc' = "done"
    /\ UNCHANGED <<cbf_rows, month, operation, dry_run, i, results, posts, send_outcomes>>
    /\ UNCHANGED <<xformVars, monthVars, fetchVars, mainVars>>

\* Lines 143-151: one iteration of the loop over the batches.
ClientUploadBatch ==
    /\ pc = "loop"
    /\ i <= Len(batches)
    /\ \E outcome \in SendOutcomes :
         LET batch == batches[i]
             result == UploadSingleBatchResult(batch, outcome)
         IN /\ posts' = Append(posts, Request(batch, month, operation))
            /\ send_outcomes' = Append(send_outcomes, outcome)
            /\ results' = Append(results, result)
            /\ IF ~result.success \/ i = Len(batches)
               THEN pc' = "aggregate" /\ i' = i
               ELSE pc' = "loop" /\ i' = i + 1
    /\ UNCHANGED <<cbf_rows, month, operation, dry_run, batches, ret, prepared>>
    /\ UNCHANGED <<xformVars, monthVars, fetchVars, mainVars>>

NextClient ==
    \/ RaiseInvalid
    \/ ClientPlanBatchedDryRun
    \/ PlanBatched
    \/ ClientUploadBatch
    \/ Aggregate
    \/ SingleDryRun
    \/ SingleUpload

SpecClient == InitUpload /\ [][NextClient]_vars

\* C24: in a batched upload of the second client only the first request
\* carries the caller's operation and every later one carries "sum", so
\* "replace_drop" is sent at most once for a month.
C24_ClientFirstBatchOperationThenSum ==
    BatchedRun =>
        /\ \A k \in 1..Len(posts) :
              posts[k].operation = IF k = 1 THEN operation ELSE "sum"
        /\ Cardinality({k \in 1..Len(posts) : posts[k].operation = "replace_drop"}) <= 1

-----------------------------------------------------------------------------
(* _split_into_batches on its own, for every row list (the same text in    *)
(* src/src/cloudzero.py and src/src/cloudzero_client.py)                   *)

InitSplit ==
    /\ cbf_rows \in RowLists
    /\ month = <<>>
    /\ operation = "sum"
    /\ dry_run = FALSE
    /\ pc = "split"
    /\ batches = <<>>
    /\ i = 0
    /\ results = <<>>
    /\ posts = <<>>
    /\ send_outcomes = <<>>
    /\ ret = NoResult
    /\ prepared = <<>>
    /\ XformIdle
    /\ MonthIdle
    /\ FetchIdle
    /\ MainIdle

\* batches = self._split_into_batches(cbf_rows)
SplitCall ==
    /\ pc = "split"
    /\ batches' = SplitIntoBatches(cbf_rows)
    /\ pc' = "split_done"
    /\ UNCHANGED <<cbf_rows, month, operation, dry_run, i, results, posts, send_outcomes, ret,
                   prepared>>
    /\ UNCHANGED <<xformVars, monthVars, fetchVars, mainVars>>

NextSplit == SplitCall

SpecSplit == InitSplit /\ [][NextSplit]_vars

RECURSIVE Concatenation(_)
Concatenation(lists) ==
    IF lists = <<>> THEN <<>> ELSE Head(lists) \o Concatenation(Tail(lists))

\* C25: the batches _split_into_batches returns, concatenated in order, are
\* the input list; no batch is empty; the empty input gives no batch.
C25_BatchesPartitionTheInput ==
    pc = "split_done" =>
        /\ Concatenation(batches) = cbf_rows
        /\ \A k \in 1..Len(batches) : batches[k] # <<>>
        /\ (cbf_rows = <<>> => batches = <<>>)

\* Three rows have been split into more than one batch, one of them of two
\* rows.
C25_Witness ==
    /\ pc = "split_done"
    /\ Len(cbf_rows) = 3
    /\ Len(batches) = 2

\* The empty list has been split.
C25_WitnessEmpty == pc = "split_done" /\ cbf_rows = <<>>

-----------------------------------------------------------------------------
(* Size of the requests sent                                               *)

\* The serialized size of a request's body
BodySize(request) == CalculatePayloadSize(request.month, request.operation, request.data)

-----------------------------------------------------------------------------
(* Shape of the aggregate result                                           *)

RECURSIVE RowsOfFirst(_, _)
RowsOfFirst(bs, n) == IF n = 0 THEN 0 ELSE Len(bs[n]) + RowsOfFirst(bs, n - 1)

\* C27: in the aggregate result of a batched upload the successes form a
\* prefix of batch_results, followed by at most one failure; batch_results
\* is no longer than total_batches; records_uploaded is the number of rows
\* of the first batches_uploaded batches, at most the number of input rows,
\* and equal to it exactly when success is true.
C27_SuccessesFormAPrefix ==
    (BatchedRun /\ pc = "done") =>
        LET rs == ret.batch_results
            n == ret.batches_uploaded
        IN /\ n <= Len(rs) /\ Len(rs) <= n + 1
           /\ \A k \in 1..Len(rs) : rs[k].success <=> k <= n
           /\ Len(rs) <= ret.total_batches
           /\ ret.total_batches = Len(batches)
           /\ ret.records_uploaded = RowsOfFirst(batches, n)
           /\ ret.records_uploaded <= Len(cbf_rows)
           /\ (ret.records_uploaded = Len(cbf_rows)) <=> ret.success

\* The second of three batches failed: one success, one failure, and the
\* third batch was not sent.
C27_Witness ==
    /\ BatchedRun /\ pc = "done"
    /\ ret.total_batches = 3
    /\ Len(ret.batch_results) = 2
    /\ ret.batches_uploaded = 1
    /\ ret.records_uploaded = 1
    /\ ~ret.success

-----------------------------------------------------------------------------
(* The upload of a run over several months                                 *)

\* The rows of the months whose outcome was "rows", in the order of the
\* month list (a month's rows are named by the month)
RECURSIVE RowsOfFetchedMonths(_, _)
RowsOfFetchedMonths(months_list, outcomes) ==
    IF months_list = <<>> \/ outcomes = <<>> THEN <<>>
    ELSE (IF Head(outcomes) = "rows" THEN <<Head(months_list)>> ELSE <<>>)
         \o RowsOfFetchedMonths(Tail(months_list), Tail(outcomes))

\* C28: with --months there is one upload call; its billing month is the
\* first month of the list and its data are the rows of every month that was
\* fetched with success, in the order of the list, also when the rows are of
\* later months only.
C28_OneUploadUnderFirstMonth ==
    (args.flag = "months" /\ upload_call.called) =>
        /\ mainpc = "exited"
        /\ Len(month_outcomes) = Len(months_to_process)
        /\ upload_call.month = months_to_process[1]
        /\ upload_call.cbf_rows = RowsOfFetchedMonths(months_to_process, month_outcomes)

\* The fetch of the first of two months failed, the second month gave rows,
\* and the rows were uploaded under the first month.
C28_Witness ==
    /\ args.flag = "months"
    /\ upload_call.called
    /\ Len(months_to_process) = 2
    /\ month_outcomes = <<"fetch_error", "rows">>
    /\ upload_call.month = months_to_process[1]
    /\ upload_call.cbf_rows = <<months_to_process[2]>>
    /\ months_to_process[1] # months_to_process[2]

-----------------------------------------------------------------------------
(* Months whose fetch or transform raised                                  *)

RaisedOutcomes == {"fetch_error", "transform_error", "date_error"}

SomeMonthRaised == \E k \in 1..Len(month_outcomes) : month_outcomes[k] \in RaisedOutcomes

Count(seq, what) == Cardinality({k \in 1..Len(seq) : seq[k] = what})

\* C29: when the fetch or the transform of a month raised, the month gave no
\* rows; the loop went on to every later month, in order; the exception did
\* not end the run; and, rows of other months being there, main wrote them
\* and uploaded them with the caller's operation.
C29_MonthFailuresAreIsolated ==
    SomeMonthRaised =>
        /\ all_cbf_rows = RowsOfFetchedMonths(months_to_process, month_outcomes)
        /\ Len(month_outcomes) = IF mainpc = "process" THEN month_index - 1
                                 ELSE Len(months_to_process)
        /\ Count(trace, "fetch") = Cardinality({k \in 1..Len(month_outcomes) :
                                                   month_outcomes[k] \in FetchOutcomes})
        /\ exit_status = 1 => trace[Len(trace)] = "write_output"
        /\ (mainpc = "exited" /\ all_cbf_rows # <<>>) => InTrace("write_output")
        /\ (mainpc = "exited" /\ exit_status = 0 /\ all_cbf_rows # <<>> /\ ~args.no_upload) =>
              /\ upload_call.called
              /\ upload_call.cbf_rows = all_cbf_rows
              /\ upload_call.operation = args.operation

\* The transform of the first of two months raised, the second month gave
\* rows, and they were written and uploaded with replace_hourly.
C29_Witness ==
    /\ Len(months_to_process) = 2
    /\ month_outcomes = <<"transform_error", "rows">>
    /\ InTrace("write_output")
    /\ upload_call.called
    /\ upload_call.operation = "replace_hourly"
    /\ upload_call.cbf_rows = <<months_to_process[2]>>
    /\ exit_status = 0

-----------------------------------------------------------------------------
(* fetch_oci_usage_data: all pages or nothing                              *)
(*                                                                         *)
(* The items of page p are named p; the list the function returns is       *)
(* all_items at fpc = "returned" (line 149), and nothing is returned at    *)
(* fpc = "raised".                                                         *)

\* The first of the calls made for page p
FirstCallFor(p) == CHOOSE k \in CallsForPage(p) : \A j \in CallsForPage(p) : k <= j

\* C30: the function returns only after a page without a next-page token
\* was fetched with success, and what it returns are the items of every page
\* in page order; the attempts of every page start anew, each page getting
\* up to 3 of them whatever the earlier pages spent; a page that uses up its
\* attempts makes the function raise, and once it has raised nothing is
\* returned.
C30_AllPagesOrNothing ==
    /\ [](fpc = "returned" =>
            /\ api_calls # <<>>
            /\ api_calls[Len(api_calls)].status = 200
            /\ ~api_calls[Len(api_calls)].next_page
            /\ api_calls[Len(api_calls)].page = page_num
            /\ all_items = [p \in 1..page_num |-> p]
            /\ \A p \in 1..page_num : \E k \in CallsForPage(p) : api_calls[k].status = 200)
    /\ [](\A p \in Pages :
            CallsForPage(p) # {} =>
                /\ api_calls[FirstCallFor(p)].attempt = 0
                /\ \A k \in CallsForPage(p) : api_calls[k].attempt = k - FirstCallFor(p)
                /\ Cardinality(CallsForPage(p)) <= max_retries)
    /\ [](\A p \in Pages :
            (Cardinality(CallsForPage(p)) = max_retries
             /\ \A k \in CallsForPage(p) : api_calls[k].status # 200) => fpc = "raised")
    /\ [](fpc = "raised" => [](fpc = "raised"))
    /\ [](fpc = "raised" => api_calls[Len(api_calls)].status # 200)

\* Both pages took three calls each, and the function returned the items of
\* the two pages.
C30_Witness ==
    /\ fpc = "returned"
    /\ Cardinality(CallsForPage(1)) = 3
    /\ Cardinality(CallsForPage(2)) = 3
    /\ all_items = <<1, 2>>

\* The first page was fetched, the second used up its attempts, and the
\* function raised.
C30_WitnessRaised ==
    /\ fpc = "raised"
    /\ all_items = <<1>>
    /\ Cardinality(CallsForPage(2)) = 3

====
